---- MODULE Spec2Model ----
(***************************************************************************)
(* Model of the MACH_VII closed-loop servo controller                      *)
(* (strategy/visual_servoing.py) and of the perception fusion engine       *)
(* (sensor/vision_bridge.py, sensor/pybullet_vision.py,                    *)
(* sensor/perception_manager.py).                                          *)
(*                                                                         *)
(* Units: lengths are integers in 0.1 cm in the servo controller; in the    *)
(* fusion engine lengths and depths are integers in 0.001 cm, so that      *)
(* round(x, 2) is a rounding to a multiple of 10.  Time is counted in      *)
(* steps of 0.5 s.  A timer of the code (time.time() - start) is kept as   *)
(* the age of its start instant; the action Tick lets 0.5 s pass.          *)
(***************************************************************************)
EXTENDS Integers, Sequences, FiniteSets, TLC

VARIABLES
    \* ---- VisualServoing instance (strategy/visual_servoing.py) ----
    lock,              \* self.lock: 0 = free, otherwise the holding caller
    is_running,        \* self.is_running
    cancel_token,      \* self.cancel_token (threading.Event flag)
    current_state,     \* self.current_state
    GRASP_DEPTH,       \* self.GRASP_DEPTH (0.1 cm)
    detect_retry,      \* self._detect_retry (absent attribute reads as 0)
    loop_retry_start,  \* self._loop_retry_start: NoneTime or age of the instant
    \* ---- one execute_approach_and_grasp call per caller thread ----
    pc,                \* position of the caller in the call
    loc,               \* locals of the call (success is the value returned)
    \* ---- collaborators of the controller ----
    ee,                \* end-effector position returned by get_ee_position
    issued,            \* per caller: kinds of outward effects of its call
    \* ---- history of the calls (observation only) ----
    calls,             \* number of calls made so far
    sessions,          \* number of admitted sessions so far
    hist,              \* per caller: what happened during its call
    \* ---- shared perception state (state/system_state.py) ----
    perception_data,   \* system_state.perception_data (reference to a list,
                       \* and the cycle for the timestamp)
    heap,              \* list objects: reference -> list of FusedObjects
    \* ---- VisionBridge and its driver (sensor/vision_bridge.py) ----
    driver,            \* type(self.driver).__name__
    offset,            \* self.offset
    filters,           \* filter_x, filter_y, filter_z of the driver
    latest_state,      \* pybullet_client.latest_state['object'] (the oracle)
    \* ---- the refresh loop (sensor/perception_manager.py) ----
    fpc,               \* position of the loop in its cycle
    packet,            \* the synced packet of the cycle
    raw_detections,    \* detections of the cycle still to be refined
    world_coords,      \* what pixel_to_cm returned for the detection in hand
    refined_list,      \* reference of the list the cycle builds
    cycle,             \* number of cycles started
    \* ---- a find_target_object look-up taken step by step ----
    rd,                \* objects (reference), position and items seen
    \* ---- history of the fusion (observation only) ----
    snap,              \* the list each publishing cycle published
    sim_absent,        \* the cycle ran on the simulator with exists=False
    last,              \* inputs and outputs of the last refinement
    fed,               \* names of the objects whose samples the filters took
    \* ---- the frame for the UI (state/system_state.py, shared/pipeline.py) ----
    image_b64,         \* the encoded frame of the cycle, <<>> for None
    last_frame_base64, \* system_state.last_frame_base64, <<>> for None
    shot,              \* a get_system_snapshot call taken step by step
    \* ---- the coordinate projector used on its own ----
    proj,              \* a projection and the planar depth taken of its result
    \* ---- one tick's motion command taken on its own ----
    cmd,               \* the inputs of the tick and the move_robot arguments
    \* ---- PerceptionManager (sensor/perception_manager.py) ----
    mgr,               \* self.running, self.thread, the loop threads, the callers
    \* ---- StateBroadcaster (shared/state_broadcaster.py) ----
    bc                 \* its lock, and the call stack of each publishing thread

servoVars == <<lock, is_running, cancel_token, current_state, GRASP_DEPTH,
               detect_retry, loop_retry_start, pc, loc, ee, issued, calls,
               sessions, hist>>
sharedVars == <<perception_data, heap>>
fusionVars == <<driver, offset, filters, latest_state, fpc, packet,
                raw_detections, world_coords, refined_list, cycle, rd, snap, sim_absent, last,
                fed>>
ctlVars == <<mgr, bc>>
pipeVars == <<image_b64, last_frame_base64, shot, proj, cmd, ctlVars>>
vars == <<servoVars, sharedVars, fusionVars, pipeVars>>

(***************************************************************************)
(* Bounds of the model                                                     *)
(***************************************************************************)
MaxCalls == 2
MaxCount == 5
MaxReachAge == 5
MaxTicks == 3

Callers == {1, 2}

\* the threads that call start() and stop() of the PerceptionManager, and the
\* number of loop threads they may start
Users == {1, 2}
MaxLoops == 2

\* the threads that use the broadcaster (servo, perception), its subscribers
\* in the order of self.subscribers, and the deepest call stack followed
Publishers == {1, 2}
Subscribers == {1, 2}
MaxStack == 4

(***************************************************************************)
(* Program constants                                                       *)
(***************************************************************************)
XY_THRESHOLD == 10
Z_THRESHOLD == 5
Z_WARN == 30
APPROACH_HEIGHT == 80
GAIN_NUM == 8
GAIN_DEN == 10
SPEED_SLOW == 15
SPEED_MEDIUM == 30
SPEED_FAST == 60
SLOW_ERROR == 30
MEDIUM_ERROR == 100
DETECT_RETRIES == 3
DETECT_WAIT == 2
GRASP_WAIT == 7
LOSS_TIMEOUT == 4
REACH_TIMEOUT == 120
DEFAULT_GRASP_OFFSET == -15

NoneTime == -1
NoRef == -1

(***************************************************************************)
(* Helpers                                                                 *)
(***************************************************************************)
Min(a, b) == IF a < b THEN a ELSE b
Max(a, b) == IF a > b THEN a ELSE b
Abs(a) == IF a < 0 THEN 0 - a ELSE a
Bump(n) == Min(n + 1, MaxCount)

\* a / b rounded to the nearest integer (b > 0)
DivR(a, b) == IF a >= 0 THEN (2 * a + b) \div (2 * b)
              ELSE 0 - ((2 * (0 - a) + b) \div (2 * b))

Pos(x, y, z) == [x |-> x, y |-> y, z |-> z]

(***************************************************************************)
(* find_target_object: case-insensitive substring match, first candidate   *)
(***************************************************************************)
LowerChar(c) ==
    CASE c = "C" -> "c"
      [] c = "U" -> "u"
      [] c = "P" -> "p"
      [] c = "B" -> "b"
      [] OTHER -> c

Lower(s) == [i \in 1..Len(s) |-> LowerChar(s[i])]

Contains(sub, s) ==
    \E i \in 0..(Len(s) - Len(sub)) : SubSeq(s, i + 1, i + Len(sub)) = sub

NameMatches(target_label, name) == Contains(Lower(target_label), Lower(name))

\* the result is <<>> for None and <<obj>> for a found object
find_target_object(target_label, objects) ==
    LET candidates == SelectSeq(objects, LAMBDA o : NameMatches(target_label, o.name))
    IN  IF candidates # <<>> THEN <<candidates[1]>> ELSE <<>>

\* system_state.perception_data.get("detected_objects", [])
DetectedObjects(pd, h) ==
    IF pd.detected_objects = NoRef THEN <<>> ELSE h[pd.detected_objects]

TargetLabel == <<"c", "u", "p">>

(***************************************************************************)
(* Inputs of the servo controller                                          *)
(***************************************************************************)
GraspOffsets == {DEFAULT_GRASP_OFFSET, 0}
EEStarts == {Pos(0, 0, 0)}

Cup(p, c) == [name |-> <<"C", "u", "p">>, position |-> p, bbox |-> <<2, 2>>,
              sync_pose |-> "pose", cyc |-> c]
Ball(p, c) == [name |-> <<"b", "a", "l", "l">>, position |-> p, bbox |-> <<2, 2>>,
               sync_pose |-> "pose", cyc |-> c]

\* complete FusedObject lists the refresh loop may have published
ServoSnapshots ==
    <<  <<Ball(Pos(30, 0, 0), 0)>>,
        <<Ball(Pos(30, 0, 0), 0), Cup(Pos(0, 0, 0), 0)>> >>
ServoRefs == 1..Len(ServoSnapshots)

ServoStates == {"IDLE", "DETECT", "VISUAL_SERVO", "GRASP", "SUCCESS", "FAIL"}

ActivePcs == {"clear", "setidle", "begin", "loop", "dispatch", "detect_wait",
              "reach_check", "reach_tick", "grasp_wait", "finally"}
ReachPcs == {"reach_check", "reach_tick"}

\* admitted by the is_running check and not yet past the is_running = False reset
Active(t) == pc[t] \in ActivePcs

InitLoc == [offset |-> 0, success |-> FALSE, phase |-> "APPROACH", reachAge |-> 0,
            waitState |-> "none", waitAge |-> 0]
InitHist == [admitted |-> FALSE, overlap |-> FALSE, busyReject |-> FALSE,
             stopSeen |-> FALSE, committed |-> FALSE, lateStop |-> FALSE,
             lookups |-> 0, waits |-> 0, found |-> FALSE,
             ticks |-> 0, moves |-> 0, atGoal |-> FALSE, reachOk |-> FALSE,
             reachEnd |-> "none", fault |-> "none",
             missAge |-> NoneTime, lostStreak |-> NoneTime, endPhase |-> "none",
             trail |-> <<>>, warned |-> FALSE]

ServoInit ==
    /\ lock = 0
    /\ is_running = FALSE
    /\ cancel_token = FALSE
    /\ current_state = "IDLE"
    /\ GRASP_DEPTH = 0
    /\ detect_retry = 0
    /\ loop_retry_start = NoneTime
    /\ pc = [t \in Callers |-> "idle"]
    /\ loc = [t \in Callers |-> InitLoc]
    /\ ee \in EEStarts
    /\ issued = [t \in Callers |-> {}]
    /\ calls = 0
    /\ sessions = 0
    /\ hist = [t \in Callers |-> InitHist]

(***************************************************************************)
(* VisualServoing._transition                                              *)
(***************************************************************************)
Transition(next_state) == current_state' = next_state

(***************************************************************************)
(* VisualServoing.stop: sets the cancel flag; a caller blocked in          *)
(* cancel_token.wait is woken with the result True.                        *)
(***************************************************************************)
Stop ==
    /\ cancel_token' = TRUE
    /\ loc' = [t \in Callers |->
                 IF loc[t].waitState = "waiting"
                 THEN [loc[t] EXCEPT !.waitState = "signaled"] ELSE loc[t]]
    /\ hist' = [t \in Callers |->
                 IF Active(t)
                 THEN IF hist[t].committed
                      THEN [hist[t] EXCEPT !.lateStop = TRUE]
                      ELSE [hist[t] EXCEPT !.stopSeen = TRUE]
                 ELSE hist[t]]
    /\ UNCHANGED <<lock, is_running, current_state, GRASP_DEPTH, detect_retry,
                   loop_retry_start, pc, ee, issued, calls,
                   sessions, sharedVars, fusionVars, pipeVars>>

(***************************************************************************)
(* execute_approach_and_grasp, lines 81-94: admission                      *)
(***************************************************************************)
Call(t, grasp_offset_z) ==
    /\ pc[t] = "idle"
    /\ calls < MaxCalls
    /\ calls' = calls + 1
    /\ pc' = [pc EXCEPT ![t] = "acquire"]
    /\ loc' = [loc EXCEPT ![t] = [InitLoc EXCEPT !.offset = grasp_offset_z]]
    /\ UNCHANGED <<issued, hist>>
    /\ UNCHANGED <<lock, is_running, cancel_token, current_state, GRASP_DEPTH,
                   detect_retry, loop_retry_start, ee, sessions,
                   sharedVars, fusionVars, pipeVars>>

\* with self.lock:
Acquire(t) ==
    /\ pc[t] = "acquire"
    /\ lock = 0
    /\ lock' = t
    /\ pc' = [pc EXCEPT ![t] = "check"]
    /\ UNCHANGED <<is_running, cancel_token, current_state, GRASP_DEPTH,
                   detect_retry, loop_retry_start, loc, ee, issued, calls, sessions, hist, sharedVars, fusionVars, pipeVars>>

\* variant: the admission check never sees a running session
BusyUnchecked(running) == FALSE

\* if self.is_running: the call is rejected
Busy(running) == running

\* variant: the cancel flag is cleared before the is_running check
RejectClearing(t) ==
    /\ pc[t] = "check"
    /\ Busy(is_running)
    /\ lock' = 0
    /\ cancel_token' = FALSE
    /\ loc' = [loc EXCEPT ![t].success = FALSE]
    /\ pc' = [pc EXCEPT ![t] = "return"]
    /\ hist' = [hist EXCEPT ![t].busyReject = \E u \in Callers \ {t} : Active(u)]
    /\ UNCHANGED <<is_running, current_state, GRASP_DEPTH,
                   detect_retry, loop_retry_start, ee, issued,
                   calls, sessions, sharedVars, fusionVars, pipeVars>>

\* if self.is_running: return False   (leaving the with block releases the lock)
Reject(t) ==
    /\ pc[t] = "check"
    /\ Busy(is_running)
    /\ lock' = 0
    /\ loc' = [loc EXCEPT ![t].success = FALSE]
    /\ pc' = [pc EXCEPT ![t] = "return"]
    /\ hist' = [hist EXCEPT ![t].busyReject = \E u \in Callers \ {t} : Active(u)]
    /\ UNCHANGED <<is_running, cancel_token, current_state, GRASP_DEPTH,
                   detect_retry, loop_retry_start, ee, issued,
                   calls, sessions, sharedVars, fusionVars, pipeVars>>

\* self.is_running = True
Admit(t) ==
    /\ pc[t] = "check"
    /\ ~Busy(is_running)
    /\ is_running' = TRUE
    /\ pc' = [pc EXCEPT ![t] = "clear"]
    /\ sessions' = sessions + 1
    /\ hist' = [hist EXCEPT ![t].admitted = TRUE,
                            ![t].overlap = \E u \in Callers \ {t} : Active(u)]
    /\ UNCHANGED <<lock, cancel_token, current_state, GRASP_DEPTH, detect_retry,
                   loop_retry_start, loc, ee, issued, calls,
                   sharedVars, fusionVars, pipeVars>>

\* self.cancel_token.clear()
ClearToken(t) ==
    /\ pc[t] = "clear"
    /\ cancel_token' = FALSE
    /\ pc' = [pc EXCEPT ![t] = "setidle"]
    /\ UNCHANGED <<lock, is_running, current_state, GRASP_DEPTH, detect_retry,
                   loop_retry_start, loc, ee, issued, calls,
                   sessions, hist, sharedVars, fusionVars, pipeVars>>

\* variant: the with block is never left, the lock stays with the caller
SetIdleHolding(t) ==
    /\ pc[t] = "setidle"
    /\ current_state' = "IDLE"
    /\ pc' = [pc EXCEPT ![t] = "begin"]
    /\ UNCHANGED <<lock, is_running, cancel_token, GRASP_DEPTH, detect_retry,
                   loop_retry_start, loc, ee, issued, calls,
                   sessions, hist, sharedVars, fusionVars, pipeVars>>

\* self.current_state = ServoState.IDLE, end of the with block
SetIdle(t) ==
    /\ pc[t] = "setidle"
    /\ current_state' = "IDLE"
    /\ lock' = 0
    /\ pc' = [pc EXCEPT ![t] = "begin"]
    /\ UNCHANGED <<is_running, cancel_token, GRASP_DEPTH, detect_retry,
                   loop_retry_start, loc, ee, issued, calls,
                   sessions, hist, sharedVars, fusionVars, pipeVars>>

\* broadcaster.publish(...); success = False; self.GRASP_DEPTH = grasp_offset_z
Begin(t) ==
    /\ pc[t] = "begin"
    /\ issued' = [issued EXCEPT ![t] = @ \cup {"broadcast"}]
    /\ loc' = [loc EXCEPT ![t].success = FALSE]
    /\ GRASP_DEPTH' = loc[t].offset
    /\ pc' = [pc EXCEPT ![t] = "loop"]
    /\ UNCHANGED <<lock, is_running, cancel_token, current_state, detect_retry,
                   loop_retry_start, ee, calls, sessions, hist,
                   sharedVars, fusionVars, pipeVars>>

(***************************************************************************)
(* execute_approach_and_grasp, lines 96-165: the state machine loop        *)
(***************************************************************************)
\* variant: there is no handler, the fault leaves the call as it is raised
Propagated(l) == [pc |-> "raised", loc |-> l]

\* except Exception: success = False, and the finally clause follows
Caught(l) == [pc |-> "finally", loc |-> [l EXCEPT !.success = FALSE]]

\* while not self.cancel_token.is_set():
LoopCheck(t) ==
    /\ pc[t] = "loop"
    /\ pc' = [pc EXCEPT ![t] = IF cancel_token THEN "finally" ELSE "dispatch"]
    /\ UNCHANGED <<lock, is_running, cancel_token, current_state, GRASP_DEPTH,
                   detect_retry, loop_retry_start, loc, ee, issued, calls, sessions, hist, sharedVars, fusionVars, pipeVars>>

\* variant: IDLE hands over to the reach at once
StepIdleSkipping(t) ==
    /\ pc[t] = "dispatch"
    /\ current_state = "IDLE"
    /\ Transition("VISUAL_SERVO")
    /\ pc' = [pc EXCEPT ![t] = "loop"]
    /\ UNCHANGED <<lock, is_running, cancel_token, GRASP_DEPTH, detect_retry,
                   loop_retry_start, loc, ee, issued, calls,
                   sessions, hist, sharedVars, fusionVars, pipeVars>>

\* IDLE: self._transition(ServoState.DETECT)
StepIdle(t) ==
    /\ pc[t] = "dispatch"
    /\ current_state = "IDLE"
    /\ Transition("DETECT")
    /\ pc' = [pc EXCEPT ![t] = "loop"]
    /\ UNCHANGED <<lock, is_running, cancel_token, GRASP_DEPTH, detect_retry,
                   loop_retry_start, loc, ee, issued, calls,
                   sessions, hist, sharedVars, fusionVars, pipeVars>>

\* the state of a cancel_token.wait(timeout) that has just been entered
EnterWait(l) ==
    [l EXCEPT !.waitState = IF cancel_token THEN "signaled" ELSE "waiting",
              !.waitAge = 0]

\* DETECT: look the target up; found -> VISUAL_SERVO, else enter the 1 s wait
StepDetect(t) ==
    /\ pc[t] = "dispatch"
    /\ current_state = "DETECT"
    /\ \E raises \in BOOLEAN :
       LET target == find_target_object(TargetLabel,
                                        DetectedObjects(perception_data, heap))
       IN  IF raises
           THEN \* the look-up raises: except clause
                /\ pc' = [pc EXCEPT ![t] = Caught(loc[t]).pc]
                /\ loc' = [loc EXCEPT ![t] = Caught(@).loc]
                /\ hist' = [hist EXCEPT ![t].fault = "find_target_object"]
                /\ UNCHANGED <<issued, current_state>>
           ELSE IF target # <<>>
           THEN /\ issued' = [issued EXCEPT ![t] = @ \cup {"broadcast"}]
                /\ Transition("VISUAL_SERVO")
                /\ pc' = [pc EXCEPT ![t] = "loop"]
                /\ hist' = [hist EXCEPT ![t].lookups = 0, ![t].waits = 0,
                                        ![t].found = TRUE,
                                        ![t].trail = Append(@, "found")]
                /\ UNCHANGED loc
           ELSE /\ pc' = [pc EXCEPT ![t] = "detect_wait"]
                /\ loc' = [loc EXCEPT ![t] = EnterWait(@)]
                /\ hist' = [hist EXCEPT ![t].lookups = Bump(@)]
                /\ UNCHANGED <<issued, current_state>>
    /\ UNCHANGED <<lock, is_running, cancel_token, GRASP_DEPTH, detect_retry,
                   loop_retry_start, ee, calls, sessions,
                   sharedVars, fusionVars, pipeVars>>

\* variant: the budget test is strict
RetriesExhaustedLate(retry_count) == retry_count > DETECT_RETRIES

\* retry_count >= 3: the retry budget is used up
RetriesExhausted(retry_count) == retry_count >= DETECT_RETRIES

\* if self.cancel_token.wait(1.0): break, then the retry bookkeeping
DetectWaitDone(t) ==
    /\ pc[t] = "detect_wait"
    /\ loc[t].waitState \in {"signaled", "timedout"}
    /\ loc' = [loc EXCEPT ![t].waitState = "none"]
    /\ IF loc[t].waitState = "signaled"
       THEN /\ pc' = [pc EXCEPT ![t] = "finally"]
            /\ UNCHANGED <<current_state, detect_retry, hist>>
       ELSE /\ pc' = [pc EXCEPT ![t] = "loop"]
            /\ hist' = [hist EXCEPT ![t].waits = Bump(@)]
            /\ LET retry_count == detect_retry
               IN  IF RetriesExhausted(retry_count)
                   THEN /\ Transition("FAIL")
                        /\ UNCHANGED detect_retry
                   ELSE /\ detect_retry' = retry_count + 1
                        /\ UNCHANGED current_state
    /\ UNCHANGED <<lock, is_running, cancel_token, GRASP_DEPTH, loop_retry_start,
                   ee, issued, calls, sessions, sharedVars, fusionVars, pipeVars>>

\* VISUAL_SERVO: enter _visual_servo_loop (phase = "APPROACH", start_time = now)
StepVisualServo(t) ==
    /\ pc[t] = "dispatch"
    /\ current_state = "VISUAL_SERVO"
    /\ loc' = [loc EXCEPT ![t].phase = "APPROACH", ![t].reachAge = 0]
    /\ hist' = [hist EXCEPT ![t].ticks = 0, ![t].moves = 0, ![t].atGoal = FALSE,
                            ![t].reachOk = FALSE, ![t].missAge = NoneTime]
    /\ pc' = [pc EXCEPT ![t] = "reach_check"]
    /\ UNCHANGED <<lock, is_running, cancel_token, current_state, GRASP_DEPTH,
                   detect_retry, loop_retry_start, ee, issued,
                   calls, sessions, sharedVars, fusionVars, pipeVars>>

\* GRASP: publish, move_gripper(0), then enter the 3.5 s settle wait;
\* a raising move_gripper is caught by the except clause (success = False)
StepGrasp(t) ==
    /\ pc[t] = "dispatch"
    /\ current_state = "GRASP"
    /\ issued' = [issued EXCEPT ![t] = @ \cup {"broadcast", "gripper"}]
    /\ \E raises \in BOOLEAN :
         IF raises
         THEN /\ loc' = [loc EXCEPT ![t] = Caught(@).loc]
              /\ pc' = [pc EXCEPT ![t] = Caught(loc[t]).pc]
              /\ hist' = [hist EXCEPT ![t].fault = "move_gripper",
                                      ![t].trail = Append(@, "grip")]
         ELSE /\ loc' = [loc EXCEPT ![t] = EnterWait(@)]
              /\ pc' = [pc EXCEPT ![t] = "grasp_wait"]
              /\ hist' = [hist EXCEPT ![t].trail = Append(@, "grip")]
    /\ UNCHANGED <<lock, is_running, cancel_token, current_state, GRASP_DEPTH,
                   detect_retry, loop_retry_start, ee, calls,
                   sessions, sharedVars, fusionVars, pipeVars>>

\* variant: success is declared whatever ended the wait
GraspWaitDoneRegardless(t) ==
    /\ pc[t] = "grasp_wait"
    /\ loc[t].waitState \in {"signaled", "timedout"}
    /\ loc' = [loc EXCEPT ![t].waitState = "none", ![t].success = TRUE]
    /\ pc' = [pc EXCEPT ![t] = "finally"]
    /\ UNCHANGED <<lock, is_running, cancel_token, current_state, GRASP_DEPTH,
                   detect_retry, loop_retry_start, ee, issued,
                   calls, sessions, hist, sharedVars, fusionVars, pipeVars>>

\* if self.cancel_token.wait(3.5): break;  success = True; break
GraspWaitDone(t) ==
    /\ pc[t] = "grasp_wait"
    /\ loc[t].waitState \in {"signaled", "timedout"}
    /\ loc' = [loc EXCEPT ![t].waitState = "none",
                          ![t].success = (loc[t].waitState = "timedout")]
    /\ pc' = [pc EXCEPT ![t] = "finally"]
    /\ UNCHANGED <<lock, is_running, cancel_token, current_state, GRASP_DEPTH,
                   detect_retry, loop_retry_start, ee, issued,
                   calls, sessions, hist, sharedVars, fusionVars, pipeVars>>

\* SUCCESS / FAIL: publish the outcome and break
StepTerminal(t) ==
    /\ pc[t] = "dispatch"
    /\ current_state \in {"SUCCESS", "FAIL"}
    /\ issued' = [issued EXCEPT ![t] = @ \cup {"broadcast"}]
    /\ pc' = [pc EXCEPT ![t] = "finally"]
    /\ UNCHANGED <<lock, is_running, cancel_token, current_state, GRASP_DEPTH,
                   detect_retry, loop_retry_start, loc, ee, calls, sessions, hist, sharedVars, fusionVars, pipeVars>>

(***************************************************************************)
(* execute_approach_and_grasp, lines 173-182: the finally clause           *)
(***************************************************************************)
\* variant: the finally clause leaves is_running as it is
FinallyBusy(t) ==
    /\ pc[t] = "finally"
    /\ pc' = [pc EXCEPT ![t] = "finally2"]
    /\ UNCHANGED <<lock, is_running, cancel_token, current_state, GRASP_DEPTH,
                   detect_retry, loop_retry_start, loc, ee, issued, calls,
                   sessions, hist, sharedVars, fusionVars, pipeVars>>

\* self.is_running = False
Finally(t) ==
    /\ pc[t] = "finally"
    /\ is_running' = FALSE
    /\ pc' = [pc EXCEPT ![t] = "finally2"]
    /\ UNCHANGED <<lock, cancel_token, current_state, GRASP_DEPTH, detect_retry,
                   loop_retry_start, loc, ee, issued, calls,
                   sessions, hist, sharedVars, fusionVars, pipeVars>>

\* variant: a set cancel flag overrides a success
FinalSuccessCancelWins(cancelled, success) ==
    IF cancelled THEN FALSE ELSE success

\* if self.cancel_token.is_set() and not success: success = False
FinalSuccess(cancelled, success) ==
    IF cancelled /\ ~success THEN FALSE ELSE success

\* the cancellation report; success now holds the value to be returned
Report(t) ==
    /\ pc[t] = "finally2"
    /\ loc' = [loc EXCEPT ![t].success = FinalSuccess(cancel_token, loc[t].success)]
    /\ issued' = [issued EXCEPT ![t] =
                    IF cancel_token /\ ~loc[t].success
                    THEN @ \cup {"broadcast"} ELSE @]
    /\ pc' = [pc EXCEPT ![t] = "return"]
    /\ UNCHANGED <<lock, is_running, cancel_token, current_state, GRASP_DEPTH,
                   detect_retry, loop_retry_start, ee, calls, sessions, hist,
                   sharedVars, fusionVars, pipeVars>>

\* return success / return False: the call is over and its locals are gone
Return(t) ==
    /\ pc[t] = "return"
    /\ pc' = [pc EXCEPT ![t] = "idle"]
    /\ loc' = [loc EXCEPT ![t] = InitLoc]
    /\ issued' = [issued EXCEPT ![t] = {}]
    /\ hist' = [hist EXCEPT ![t] = InitHist]
    /\ UNCHANGED <<lock, is_running, cancel_token, current_state, GRASP_DEPTH,
                   detect_retry, loop_retry_start, ee, calls, sessions,
                   sharedVars, fusionVars, pipeVars>>

(***************************************************************************)
(* _visual_servo_loop, lines 184-316: the reaching loop                    *)
(***************************************************************************)
Sq(a) == a * a

ApproachGoal(target_pos) ==
    Pos(target_pos.x, target_pos.y, target_pos.z + APPROACH_HEIGHT)

DescendGoal(target_pos, grasp_depth) ==
    Pos(target_pos.x, target_pos.y, target_pos.z + grasp_depth)

\* xy_error < self.XY_THRESHOLD, compared on the squares
XYAligned(current_ee, goal) ==
    Sq(current_ee.x - goal.x) + Sq(current_ee.y - goal.y) < Sq(XY_THRESHOLD)

\* z_error < self.Z_THRESHOLD
ZReached(current_ee, goal) == Abs(current_ee.z - goal.z) < Z_THRESHOLD

\* error * self.GAIN
Gain(error) == DivR(error * GAIN_NUM, GAIN_DEN)

\* cmd = current + error * GAIN, per axis
PCommand(current_ee, goal) ==
    Pos(current_ee.x + Gain(goal.x - current_ee.x),
        current_ee.y + Gain(goal.y - current_ee.y),
        current_ee.z + Gain(goal.z - current_ee.z))

\* speed by the total error, compared on the squares
SelectSpeed(current_ee, goal) ==
    LET total2 == Sq(goal.x - current_ee.x) + Sq(goal.y - current_ee.y)
                  + Sq(goal.z - current_ee.z)
    IN  IF total2 < Sq(SLOW_ERROR) THEN SPEED_SLOW
        ELSE IF total2 < Sq(MEDIUM_ERROR) THEN SPEED_MEDIUM
        ELSE SPEED_FAST

\* _visual_servo_loop has returned or raised: its locals are gone
LeaveReach(l) == [l EXCEPT !.phase = "APPROACH", !.reachAge = 0]
CloseReach(h, ok, how) == [h EXCEPT !.ticks = 0, !.moves = 0, !.atGoal = FALSE,
                                    !.reachOk = ok, !.reachEnd = how,
                                    !.missAge = NoneTime]

\* variant: the whole-reach timeout never expires
ReachTimedOutNever(elapsed) == FALSE

\* time.time() - start_time > timeout
ReachTimedOut(elapsed) == elapsed > REACH_TIMEOUT

\* the head of the while loop: cancel check, then the whole-reach timeout;
\* a False return makes the state machine transition to FAIL
ReachCheck(t) ==
    /\ pc[t] = "reach_check"
    /\ IF cancel_token \/ ReachTimedOut(loc[t].reachAge)
       THEN /\ Transition("FAIL")
            /\ pc' = [pc EXCEPT ![t] = "loop"]
            /\ loc' = [loc EXCEPT ![t] = LeaveReach(@)]
            /\ hist' = [hist EXCEPT ![t] =
                          [CloseReach(@, FALSE, IF cancel_token THEN "cancel"
                                                ELSE "timeout")
                             EXCEPT !.endPhase = loc[t].phase]]
       ELSE /\ pc' = [pc EXCEPT ![t] = "reach_tick"]
            /\ UNCHANGED <<current_state, loc, hist>>
    /\ UNCHANGED <<lock, is_running, cancel_token, GRASP_DEPTH, detect_retry,
                   loop_retry_start, ee, issued, calls, sessions, sharedVars, fusionVars, pipeVars>>

\* elapsed_retry > 2.0
TargetLost(elapsed_retry) == elapsed_retry > LOSS_TIMEOUT

\* elif z_error > 3.0: logging.warning(...), in DESCEND only
ZExcessive(phase, current_ee, target_pos, grasp_depth) ==
    /\ phase = "DESCEND"
    /\ Abs(current_ee.z - DescendGoal(target_pos, grasp_depth).z) > Z_WARN

\* variant: an excessive Z error in DESCEND sends the reach back to APPROACH
NextPhaseReapproach(phase, current_ee, target_pos) ==
    IF ZExcessive(phase, current_ee, target_pos, GRASP_DEPTH) THEN "APPROACH"
    ELSE IF phase = "APPROACH" /\ XYAligned(current_ee, ApproachGoal(target_pos))
    THEN "DESCEND" ELSE phase

\* the phase after the tick: APPROACH becomes DESCEND once XY is aligned
NextPhase(phase, current_ee, target_pos) ==
    IF phase = "APPROACH" /\ XYAligned(current_ee, ApproachGoal(target_pos))
    THEN "DESCEND" ELSE phase

\* the goal of the tick is the goal of the phase the tick started in
TickGoal(phase, target_pos, grasp_depth) ==
    IF phase = "APPROACH" THEN ApproachGoal(target_pos)
    ELSE DescendGoal(target_pos, grasp_depth)

\* the tick ends the reach with success: DESCEND and Z reached
TickSucceeds(phase, current_ee, target_pos, grasp_depth) ==
    phase = "DESCEND" /\ ZReached(current_ee, DescendGoal(target_pos, grasp_depth))

\* variant: the speed thresholds are inclusive
MoveCommandInclusive(phase, current_ee, target_pos, grasp_depth) ==
    LET goal   == TickGoal(phase, target_pos, grasp_depth)
        total2 == Sq(goal.x - current_ee.x) + Sq(goal.y - current_ee.y)
                  + Sq(goal.z - current_ee.z)
    IN  [to    |-> PCommand(current_ee, goal),
         speed |-> IF total2 <= Sq(SLOW_ERROR) THEN SPEED_SLOW
                   ELSE IF total2 <= Sq(MEDIUM_ERROR) THEN SPEED_MEDIUM
                   ELSE SPEED_FAST]

\* the arguments of move_robot(cmd_x, cmd_y, cmd_z, speed), lines 276-297
MoveCommand(phase, current_ee, target_pos, grasp_depth) ==
    LET goal == TickGoal(phase, target_pos, grasp_depth)
    IN  [to    |-> PCommand(current_ee, goal),
         speed |-> SelectSpeed(current_ee, goal)]

\* observation of the first ticks of a reach: ticks and motion commands are
\* counted up to MaxTicks, after which the record is closed
Observe(h, first, atGoalNow, moved) ==
    IF h.ticks >= MaxTicks - 1
    THEN [h EXCEPT !.ticks = MaxTicks, !.moves = 0, !.atGoal = FALSE]
    ELSE [h EXCEPT !.ticks = @ + 1,
                   !.moves = IF moved THEN @ + 1 ELSE @,
                   !.atGoal = IF first THEN atGoalNow ELSE @]

\* the time for which the look-ups of this reach have missed in a row, the
\* look-up that misses now included
Streak(h) == IF h.missAge = NoneTime THEN 0 ELSE h.missAge

\* a move_robot command issued after the gripper command is put on record
Moved(h) == IF \E i \in DOMAIN h.trail : h.trail[i] = "grip"
            THEN [h EXCEPT !.trail = Append(@, "move")] ELSE h

\* variant: a tick without a target repeats a motion command
MissIssuesMove(effects) == effects \cup {"move"}

\* the outward effects of a tick whose look-up missed (lines 215-229: a
\* warning, a sleep and continue, or return False): none is added
MissIssues(effects) == effects

\* one tick of the loop body, lines 211-313
ReachTick(t) ==
    /\ pc[t] = "reach_tick"
    /\ \E fault \in {"none", "get_ee_position", "find_target_object", "move_robot"},
          arrives \in BOOLEAN :
       LET current_ee == ee
           target_obj == find_target_object(TargetLabel,
                                            DetectedObjects(perception_data, heap))
           first      == hist[t].ticks = 0
       IN
       IF fault \in {"get_ee_position", "find_target_object"}
       THEN \* the callback or the look-up raises: except clause
            /\ loc' = [loc EXCEPT ![t] = LeaveReach(Caught(@).loc)]
            /\ pc' = [pc EXCEPT ![t] = Caught(loc[t]).pc]
            /\ hist' = [hist EXCEPT ![t] =
                          [CloseReach(@, FALSE, "fault") EXCEPT !.fault = fault]]
            /\ UNCHANGED <<current_state, loop_retry_start, ee, issued>>
       ELSE IF target_obj = <<>>
       THEN LET retry_tracker == IF loop_retry_start = NoneTime
                                 THEN 0 ELSE loop_retry_start
            IN  /\ loop_retry_start' = retry_tracker
                /\ IF TargetLost(retry_tracker)
                   THEN /\ Transition("FAIL")
                        /\ pc' = [pc EXCEPT ![t] = "loop"]
                        /\ loc' = [loc EXCEPT ![t] = LeaveReach(@)]
                        /\ hist' = [hist EXCEPT ![t] =
                                      [CloseReach(@, FALSE, "lost")
                                         EXCEPT !.lostStreak = Streak(hist[t])]]
                   ELSE /\ pc' = [pc EXCEPT ![t] = "reach_check"]
                        /\ hist' = [hist EXCEPT ![t] =
                                      [Observe(@, first, FALSE, FALSE)
                                         EXCEPT !.missAge = Streak(hist[t])]]
                        /\ UNCHANGED <<current_state, loc>>
                /\ issued' = [issued EXCEPT ![t] = MissIssues(@)]
                /\ UNCHANGED ee
       ELSE LET target_pos == target_obj[1].position
                phase      == loc[t].phase
                goal       == TickGoal(phase, target_pos, GRASP_DEPTH)
                atGoalNow  == /\ XYAligned(current_ee, goal)
                              /\ ZReached(current_ee, DescendGoal(target_pos, GRASP_DEPTH))
            IN  /\ loop_retry_start' = NoneTime
                /\ IF TickSucceeds(phase, current_ee, target_pos, GRASP_DEPTH)
                   THEN \* time.sleep(0.3); return True; publish; -> GRASP
                        /\ issued' = [issued EXCEPT ![t] = @ \cup {"broadcast"}]
                        /\ Transition("GRASP")
                        /\ pc' = [pc EXCEPT ![t] = "loop"]
                        /\ loc' = [loc EXCEPT ![t] = LeaveReach(@)]
                        /\ hist' = [hist EXCEPT ![t] =
                                      [CloseReach(@, TRUE, "ok")
                                         EXCEPT !.trail = Append(@, "reached")]]
                        /\ UNCHANGED ee
                   ELSE \* proportional correction and move_robot
                        /\ issued' = [issued EXCEPT ![t] = @ \cup {"move"}]
                        /\ UNCHANGED current_state
                        /\ IF fault = "move_robot"
                           THEN /\ loc' = [loc EXCEPT ![t] = LeaveReach(Caught(@).loc)]
                                /\ pc' = [pc EXCEPT ![t] = Caught(loc[t]).pc]
                                /\ hist' = [hist EXCEPT ![t] =
                                              [Moved(CloseReach(@, FALSE, "fault"))
                                                 EXCEPT !.fault = fault]]
                                /\ UNCHANGED ee
                           ELSE /\ hist' = [hist EXCEPT ![t] =
                                              [Moved(Observe(@, first, atGoalNow, TRUE))
                                                 EXCEPT !.missAge = NoneTime,
                                                        !.warned = @ \/
                                                          ZExcessive(phase, current_ee,
                                                                     target_pos, GRASP_DEPTH)]]
                                /\ loc' = [loc EXCEPT ![t].phase =
                                              NextPhase(phase, current_ee, target_pos)]
                                /\ pc' = [pc EXCEPT ![t] = "reach_check"]
                                /\ ee' = IF arrives
                                         THEN MoveCommand(phase, current_ee, target_pos,
                                                          GRASP_DEPTH).to
                                         ELSE ee
    /\ UNCHANGED <<lock, is_running, cancel_token, GRASP_DEPTH, detect_retry,
                   calls, sessions, sharedVars, fusionVars, pipeVars>>

(***************************************************************************)
(* Passage of time: 0.5 s elapse                                           *)
(***************************************************************************)
WaitLength(p) == IF p = "grasp_wait" THEN GRASP_WAIT ELSE DETECT_WAIT

Aged(t) ==
    LET l  == loc[t]
        l1 == IF l.waitState = "waiting"
              THEN [l EXCEPT !.waitAge = @ + 1,
                             !.waitState = IF l.waitAge + 1 >= WaitLength(pc[t])
                                           THEN "timedout" ELSE "waiting"]
              ELSE l
    IN  IF pc[t] \in ReachPcs
        THEN [l1 EXCEPT !.reachAge = Min(@ + 1, REACH_TIMEOUT + 1)]
        ELSE l1

\* exploration bound: no reach is followed for longer than MaxReachAge
ReachWithin(limit) ==
    \A t \in Callers : pc[t] \in ReachPcs => loc[t].reachAge < limit

Tick ==
    /\ ReachWithin(MaxReachAge)
    /\ loc' = [t \in Callers |-> Aged(t)]
    /\ loop_retry_start' = IF loop_retry_start = NoneTime THEN NoneTime
                           ELSE Min(loop_retry_start + 1, LOSS_TIMEOUT + 1)
    /\ \/ loc' # loc
       \/ loop_retry_start' # loop_retry_start
    /\ hist' = [t \in Callers |->
                 IF pc[t] = "grasp_wait" /\ loc'[t].waitState = "timedout"
                 THEN [hist[t] EXCEPT !.committed = TRUE,
                                      !.trail = Append(@, "settled")]
                 ELSE IF hist[t].missAge # NoneTime
                 THEN [hist[t] EXCEPT !.missAge = Min(@ + 1, LOSS_TIMEOUT + 1)]
                 ELSE hist[t]]
    /\ UNCHANGED <<lock, is_running, cancel_token, current_state, GRASP_DEPTH,
                   detect_retry, pc, ee, issued, calls,
                   sessions, sharedVars, fusionVars, pipeVars>>

\* a long pause of a reach (the thread is held up in a callback or in its
\* sleep): the time to the whole-reach timeout passes in one step, first up
\* to 60 s at the earliest, then beyond; every other timer expires meanwhile
StallTicks == REACH_TIMEOUT - MaxReachAge + 1

Stalled(t) ==
    LET l  == loc[t]
        l1 == IF l.waitState = "waiting"
              THEN [l EXCEPT !.waitAge = WaitLength(pc[t]), !.waitState = "timedout"]
              ELSE l
    IN  IF pc[t] \in ReachPcs
        THEN [l1 EXCEPT !.reachAge = Min(@ + StallTicks, REACH_TIMEOUT + 1)]
        ELSE l1

Stall ==
    /\ \E t \in Callers :
          /\ pc[t] \in ReachPcs
          /\ loc[t].reachAge >= MaxReachAge - 1
          /\ loc[t].reachAge <= REACH_TIMEOUT
    /\ loc' = [t \in Callers |-> Stalled(t)]
    /\ loop_retry_start' = IF loop_retry_start = NoneTime THEN NoneTime
                           ELSE LOSS_TIMEOUT + 1
    /\ hist' = [t \in Callers |->
                 IF pc[t] = "grasp_wait" /\ loc'[t].waitState = "timedout"
                 THEN [hist[t] EXCEPT !.committed = TRUE,
                                      !.trail = Append(@, "settled")]
                 ELSE IF hist[t].missAge # NoneTime
                 THEN [hist[t] EXCEPT !.missAge = LOSS_TIMEOUT + 1]
                 ELSE hist[t]]
    /\ UNCHANGED <<lock, is_running, cancel_token, current_state, GRASP_DEPTH,
                   detect_retry, pc, ee, issued, calls,
                   sessions, sharedVars, fusionVars, pipeVars>>

(***************************************************************************)
(* The refresh loop as seen by the controller: it replaces the snapshot    *)
(* by the reference to another complete list                               *)
(***************************************************************************)
PerceptionPublish(r) ==
    /\ perception_data.detected_objects # r
    /\ perception_data' = [detected_objects |-> r, timestamp |-> 0]
    /\ UNCHANGED <<servoVars, heap, fusionVars, pipeVars>>

(***************************************************************************)
(* The servo controller with its callers                                   *)
(***************************************************************************)
\* the steps of an admitted call
SessionBody(t) ==
    \/ \E off \in GraspOffsets : Call(t, off)
    \/ Acquire(t)
    \/ Admit(t)
    \/ ClearToken(t)
    \/ SetIdle(t)
    \/ Begin(t)
    \/ LoopCheck(t)
    \/ StepIdle(t)
    \/ StepDetect(t)
    \/ DetectWaitDone(t)
    \/ StepVisualServo(t)
    \/ ReachCheck(t)
    \/ ReachTick(t)
    \/ StepGrasp(t)
    \/ GraspWaitDone(t)
    \/ StepTerminal(t)
    \/ Finally(t)
    \/ Report(t)
    \/ Return(t)

(***************************************************************************)
(* Perception fusion: bounds and program constants (lengths in 0.001 cm)   *)
(***************************************************************************)
MaxCycles == 1
MaxSnapshots == 3
MaxDets == 2

MAX_DEPTH == 300000
ORACLE_DIST_SQ == 400000000
CAM_WIDTH == 600
CAM_HEIGHT == 480
CX == 300
CY == 240
\* FX = FY = 240 / tan(30 deg) = 415.69 pixels, kept as 4157 / 10
FX_NUM == 4157
FX_DEN == 10
\* cos(45 deg): the camera at (0.5, 0, 0.5) m looks at the origin
COS_NUM == 707
COS_DEN == 1000
EYE_X == 50000
EYE_Z == 50000
RS_FX == 600
RS_FY == 600
RS_CX == 320
RS_CY == 240
SIM_OFFSET == Pos(50000, 0, 50000)
REAL_OFFSET == Pos(30000, 0, 20000)
\* KalmanFilter(process_variance=1e-3, measurement_variance=1e-4), in 1e-4
KF_Q == 10
KF_R == 1
KF_P0 == 10000

(***************************************************************************)
(* Signal filter (shared/filters.py): scalar predict/update estimator      *)
(***************************************************************************)
KalmanInit == [est |-> 0, err |-> KF_P0]

\* update(sample): predict, gain, correct; returns the new estimate
KalmanUpdate(f, z) ==
    LET p == f.err + KF_Q
    IN  [est |-> z - DivR(KF_R * (z - f.est), p + KF_R),
         err |-> DivR(KF_R * p, p + KF_R)]

\* reset(value): the estimate is forced, the history discarded
KalmanReset(f, v) == [est |-> v, err |-> KF_P0]

FiltersInit == [x |-> KalmanInit, y |-> KalmanInit, z |-> KalmanInit]

(***************************************************************************)
(* Coordinate projector (sensor/projection/pybullet_projection.py)         *)
(***************************************************************************)
pixel_to_3d(pixel_x, pixel_y, depth_m) ==
    LET x_view == DivR((pixel_x - CX) * depth_m * FX_DEN, FX_NUM)
        y_view == 0 - DivR((pixel_y - CY) * depth_m * FX_DEN, FX_NUM)
        z_view == 0 - depth_m
    IN  Pos(EYE_X - DivR((y_view - z_view) * COS_NUM, COS_DEN),
            x_view,
            EYE_Z + DivR((y_view + z_view) * COS_NUM, COS_DEN))

\* variant: the camera position is left out of the world -> camera transform
calculate_planar_depthUntranslated(world) ==
    DivR((0 - world.x - world.z) * COS_NUM, COS_DEN)

calculate_planar_depth(world) ==
    DivR((EYE_X + EYE_Z - world.x - world.z) * COS_NUM, COS_DEN)

\* RealSenseVision.pixel_to_cm: camera-relative pinhole approximation
RealSensePixelToCm(u, v, depth_val) ==
    LET z == depth_val
    IN  Pos(DivR((u - RS_CX) * z, RS_FX), DivR((v - RS_CY) * z, RS_FY), z)

\* round(x, 2) of each coordinate
Round2(a) == DivR(a, 10) * 10
RoundPos(p) == Pos(Round2(p.x), Round2(p.y), Round2(p.z))

(***************************************************************************)
(* Depth estimator (get_refined_detections, lines 91-126)                  *)
(***************************************************************************)
\* a depth frame: shape and the depth left and right of a vertical edge
DepthAt(frame, v, u) == IF u < frame.edge THEN frame.left ELSE frame.right

\* int(size * 0.3)
Margin(size) == (size * 3) \div 10
RoiLow(c, size) == Max(0, (c - (size \div 2)) + Margin(size))
RoiHigh(c, size, limit) == Min(limit, (c + (size \div 2)) - Margin(size))

\* depth_frame[v_min:v_max, u_min:u_max], flattened row by row
DepthRoi(frame, det) ==
    LET u == det.pixel_center[1]
        v == det.pixel_center[2]
        u_min == RoiLow(u, det.bbox[1])
        u_max == RoiHigh(u, det.bbox[1], frame.cols)
        v_min == RoiLow(v, det.bbox[2])
        v_max == RoiHigh(v, det.bbox[2], frame.rows)
        nr == Max(0, v_max - v_min)
        nc == Max(0, u_max - u_min)
    IN  [i \in 1..(nr * nc) |->
            DepthAt(frame, v_min + ((i - 1) \div nc), u_min + ((i - 1) % nc))]

\* (depth_roi > 0) & (depth_roi < 3.0)
ValidDepth(d) == d > 0 /\ d < MAX_DEPTH
ValidDepths(frame, det) == SelectSeq(DepthRoi(frame, det), ValidDepth)

RECURSIVE Insert(_, _)
Insert(s, x) ==
    IF s = <<>> THEN <<x>>
    ELSE IF x <= Head(s) THEN <<x>> \o s
    ELSE <<Head(s)>> \o Insert(Tail(s), x)

RECURSIVE Sorted(_)
Sorted(s) == IF s = <<>> THEN <<>> ELSE Insert(Sorted(Tail(s)), Head(s))

\* np.median
Median(s) ==
    LET n == Len(s)
        t == Sorted(s)
    IN  IF n % 2 = 1 THEN t[(n + 1) \div 2]
        ELSE DivR(t[n \div 2] + t[(n \div 2) + 1], 2)

RECURSIVE SumSeq(_)
SumSeq(s) == IF s = <<>> THEN 0 ELSE Head(s) + SumSeq(Tail(s))

RECURSIVE SqrtIn(_, _, _)
SqrtIn(n, lo, hi) ==
    IF lo >= hi THEN lo
    ELSE LET mid == (lo + hi + 1) \div 2
         IN  IF mid * mid <= n THEN SqrtIn(n, mid, hi)
             ELSE SqrtIn(n, lo, mid - 1)

\* np.std (population): sqrt(n * sum(y^2) - sum(y)^2) / n, y relative to s[1]
Std(s) ==
    LET n == Len(s)
        y == [i \in 1..n |-> s[i] - s[1]]
        yy == [i \in 1..n |-> y[i] * y[i]]
        sy == SumSeq(y)
        m == n * SumSeq(yy) - sy * sy
    IN  DivR(SqrtIn(m, 0, Min(m, 40000)), n)

\* depth_frame[v, u] if the centre is inside the map, else 0
CentreInside(frame, det) ==
    det.pixel_center[2] < frame.rows /\ det.pixel_center[1] < frame.cols
PointDepth(frame, det) ==
    IF CentreInside(frame, det)
    THEN DepthAt(frame, det.pixel_center[2], det.pixel_center[1])
    ELSE 0

EstimateDepth(frame, det) ==
    LET valid_depths == ValidDepths(frame, det)
    IN  IF Len(valid_depths) > 0
        THEN Median(valid_depths) + Std(valid_depths)
        ELSE PointDepth(frame, det)

(***************************************************************************)
(* PybulletVision.pixel_to_cm: projection, oracle, axis filters            *)
(***************************************************************************)
\* squared distance; beyond 20 cm on one axis it is reported as one more
\* than the threshold, which every comparison with the threshold preserves
DistSq(a, b) ==
    IF \/ Abs(a.x - b.x) > 20000
       \/ Abs(a.y - b.y) > 20000
       \/ Abs(a.z - b.z) > 20000
    THEN ORACLE_DIST_SQ + 1
    ELSE Sq(a.x - b.x) + Sq(a.y - b.y) + Sq(a.z - b.z)

\* variant: no phantom rejection, an absent object falls through to the filters
OracleBranchNoPhantom(exists, dist_sq) ==
    IF exists
    THEN IF dist_sq < ORACLE_DIST_SQ THEN "oracle" ELSE "filter"
    ELSE "filter"

\* variant: the threshold itself still selects the oracle
OracleBranchInclusive(exists, dist_sq) ==
    IF exists
    THEN IF dist_sq <= ORACLE_DIST_SQ THEN "oracle" ELSE "filter"
    ELSE "phantom"

\* if gt_obj.get('exists'): if dist_sq < 400.0: ... return   else: return None
OracleBranch(exists, dist_sq) ==
    IF exists
    THEN IF dist_sq < ORACLE_DIST_SQ THEN "oracle" ELSE "filter"
    ELSE "phantom"

UpdateAll(f, p) ==
    [x |-> KalmanUpdate(f.x, p.x), y |-> KalmanUpdate(f.y, p.y),
     z |-> KalmanUpdate(f.z, p.z)]
ResetAll(f, p) ==
    [x |-> KalmanReset(f.x, p.x), y |-> KalmanReset(f.y, p.y),
     z |-> KalmanReset(f.z, p.z)]
Estimates(f) == Pos(f.x.est, f.y.est, f.z.est)

\* variant: the oracle's position is taken as it is
OracleReprojectionAsPosition(u, v, gt_pos) == gt_pos

\* true_depth_m = calculate_planar_depth(gt_x, gt_y, gt_z), then the pixel of
\* the detection is projected again with that depth
OracleReprojection(u, v, gt_pos) ==
    LET true_depth_m == calculate_planar_depth(gt_pos)
    IN  pixel_to_3d(u, v, true_depth_m)

\* gt: [record, exists, pos]; pos = <<>> when the record has no coordinates,
\* then gt_obj['x'] raises and the except clause falls through to the filters
PybulletPixelToCm(u, v, depth_val, gt, f) ==
    IF depth_val <= 0 THEN [out |-> <<>>, filters |-> f]
    ELSE
      LET raw == pixel_to_3d(u, v, depth_val)
          branch == IF gt.exists /\ gt.pos = <<>> THEN "filter"
                    ELSE OracleBranch(gt.exists,
                            IF gt.exists THEN DistSq(raw, gt.pos[1]) ELSE 0)
      IN  CASE branch = "oracle" ->
                 LET p == OracleReprojection(u, v, gt.pos[1])
                 IN  [out |-> <<p>>, filters |-> ResetAll(f, p)]
            [] branch = "phantom" -> [out |-> <<>>, filters |-> f]
            [] OTHER ->
                 LET g == UpdateAll(f, raw)
                 IN  [out |-> <<Estimates(g)>>, filters |-> g]

\* self.driver.pixel_to_cm(u, v, depth_m)
PixelToCm(drv, u, v, depth_val, gt, f) ==
    IF drv = "PybulletVision"
    THEN PybulletPixelToCm(u, v, depth_val, gt, f)
    ELSE [out |-> <<RealSensePixelToCm(u, v, depth_val)>>, filters |-> f]

\* the offset is added for a camera-relative driver only
ToRobotBase(drv, off, w) ==
    IF drv = "PybulletVision" THEN w
    ELSE Pos(w.x + off.x, w.y + off.y, w.z + off.z)

\* the first part of the loop body for a detection, lines 84-128: the depth
\* of the detection and the value of self.driver.pixel_to_cm
Locate(det, frame, drv, gt, f) ==
    LET depth_m == EstimateDepth(frame, det)
        r == IF depth_m <= 0 THEN [out |-> <<>>, filters |-> f]
             ELSE PixelToCm(drv, det.pixel_center[1], det.pixel_center[2],
                            depth_m, gt, f)
    IN  [depth |-> depth_m, coords |-> r.out, filters |-> r.filters]

\* the second part, lines 130-161: the FusedObject appended for world_coords
Emitted(det, drv, off, w, pose, c) ==
    [name |-> det.name,
     position |-> RoundPos(ToRobotBase(drv, off, w)),
     bbox |-> det.bbox,
     sync_pose |-> pose,
     cyc |-> c]

(***************************************************************************)
(* Inputs of the fusion engine                                             *)
(***************************************************************************)
NearDepth == 70700
DeepDepth == 70900
FarDepth == 500000

Frame(left, right) ==
    [rows |-> CAM_HEIGHT, cols |-> CAM_WIDTH, edge |-> CX,
     left |-> left, right |-> right]
Frames ==
    {Frame(NearDepth, NearDepth), Frame(NearDepth, DeepDepth),
     Frame(0, 0), Frame(FarDepth, FarDepth)}

\* get_synced_packet(): None, or a packet that may lack the color frame, the
\* depth frame or the captured pose
Packets ==
    {<<>>,
     <<[color |-> FALSE, depth |-> <<Frame(NearDepth, NearDepth)>>,
        captured_pose |-> <<"pose">>]>>,
     <<[color |-> TRUE, depth |-> <<>>, captured_pose |-> <<"pose">>]>>,
     <<[color |-> TRUE, depth |-> <<Frame(NearDepth, NearDepth)>>,
        captured_pose |-> <<>>]>>}
      \cup {<<[color |-> TRUE, depth |-> <<f>>, captured_pose |-> <<"pose">>]>> :
               f \in Frames}

Detection(name, u, v, w, h) ==
    [name |-> name, pixel_center |-> <<u, v>>, bbox |-> <<w, h>>]
\* what yolo.detect may find in a frame, in the order it reports it: a cup at
\* the image centre, a ball with a one-pixel box there, a ball whose centre
\* lies one column beyond the depth map
DetectionOrder ==
    <<Detection(<<"C", "u", "p">>, CX, CY, 2, 2),
      Detection(<<"b", "a", "l", "l">>, CX, CY, 1, 1),
      Detection(<<"b", "a", "l", "l">>, CAM_WIDTH, CY, 2, 2)>>
Pick(S) ==
    LET F[i \in 0..Len(DetectionOrder)] ==
           IF i = 0 THEN <<>>
           ELSE IF i \in S THEN Append(F[i - 1], DetectionOrder[i])
           ELSE F[i - 1]
    IN  F[Len(DetectionOrder)]
DetectionLists ==
    {Pick(S) : S \in {T \in SUBSET (1..Len(DetectionOrder)) :
                         Cardinality(T) <= MaxDets}}

\* the oracle once the simulator has reported (before, there is no record):
\* absent, 5 cm and 3 cm off the optical axis, exactly 20 cm from the projection of the centre
\* pixel at NearDepth, and a record without coordinates
Oracle(record, exists, pos) == [record |-> record, exists |-> exists, pos |-> pos]
CentreProjection == pixel_to_3d(CX, CY, NearDepth)
Oracles ==
    {Oracle(TRUE, FALSE, <<>>),
     Oracle(TRUE, TRUE, <<Pos(5000, 3000, 0)>>),
     Oracle(TRUE, TRUE, <<Pos(CentreProjection.x + 20000, CentreProjection.y,
                              CentreProjection.z)>>),
     Oracle(TRUE, TRUE, <<>>)}
ReportsAbsent(gt) == gt.record /\ ~gt.exists

Sources == {"pybullet", "realsense"}
DriverOf(source) ==
    IF source = "pybullet" THEN "PybulletVision" ELSE "RealSenseVision"
OffsetOf(source) == IF source = "pybullet" THEN SIM_OFFSET ELSE REAL_OFFSET

InitRd == [pc |-> "idle", objects |-> NoRef, idx |-> 0, seen |-> <<>>]

\* a snapshot not yet taken; perception is the cycle that wrote the entry read
InitShot == [pc |-> "idle", perception |-> 0, last_frame |-> <<>>]

InitProj == [pc |-> "idle", u |-> 0, v |-> 0, depth_m |-> 0, world |-> <<>>,
             back |-> 0]

InitCmd == [pc |-> "idle", phase |-> "APPROACH", ee |-> Pos(0, 0, 0),
            target |-> Pos(0, 0, 0), depth |-> 0, out |-> <<>>]

\* PerceptionManager(): running = False, thread = None; no loop thread yet
InitMgr == [running |-> FALSE, thread |-> 0, spawned |-> 0,
            loop |-> [n \in 1..MaxLoops |-> "none"],
            pc |-> [c \in Users |-> "idle"]]

\* StateBroadcaster._init: the lock is free; no thread is inside a call
InitBc == [lock |-> 0, stack |-> [t \in Publishers |-> <<>>]]

\* SystemState(): last_frame_base64 = None
PipeIdle ==
    /\ image_b64 = <<>>
    /\ last_frame_base64 = <<>>
    /\ shot = InitShot
    /\ proj = InitProj
    /\ cmd = InitCmd
    /\ mgr = InitMgr
    /\ bc = InitBc

FusionIdle ==
    /\ driver = "PybulletVision"
    /\ offset = SIM_OFFSET
    /\ filters = FiltersInit
    /\ latest_state = Oracle(FALSE, FALSE, <<>>)
    /\ fpc = "idle"
    /\ packet = <<>>
    /\ raw_detections = <<>>
    /\ world_coords = <<>>
    /\ refined_list = NoRef
    /\ cycle = 0
    /\ rd = InitRd
    /\ snap = <<>>
    /\ sim_absent = FALSE
    /\ last = <<>>
    /\ fed = {}
    /\ PipeIdle

(***************************************************************************)
(* The fusion cycle: PerceptionManager._update_loop calling                *)
(* VisionBridge.get_refined_detections                                     *)
(***************************************************************************)
\* variant: the cycle clears and refills the list it published before
NewListReused(h, published) ==
    IF published = NoRef
    THEN [ref |-> Len(h) + 1, heap |-> Append(h, <<>>)]
    ELSE [ref |-> published, heap |-> [h EXCEPT ![published] = <<>>]]

\* refined_list = []  (return [] for a missing or incomplete packet)
NewList(h, published) == [ref |-> Len(h) + 1, heap |-> Append(h, <<>>)]

\* if not packet: return []; if color_frame is None or depth_frame is None:
\* return []
Complete(p) == p # <<>> /\ p[1].color /\ p[1].depth # <<>>

\* packet.get("captured_pose", {})
CapturedPose(p) == IF p[1].captured_pose = <<>> THEN "{}" ELSE p[1].captured_pose[1]

\* the packet p as self.driver.get_synced_packet() returned it: the driver
\* object that supplied it is kept with it
Supplied(p, drv) ==
    IF p = <<>> THEN <<>>
    ELSE <<[color |-> p[1].color, depth |-> p[1].depth,
            captured_pose |-> p[1].captured_pose, driver |-> drv]>>

\* get_synced_packet, the completeness checks, yolo.detect, refined_list = []
StartCycle(limit, packets, lists) ==
    /\ fpc = "idle"
    /\ cycle < limit
    /\ \E p \in packets, dets \in lists :
          LET n == NewList(heap, perception_data.detected_objects)
          IN  /\ ~Complete(p) => dets = <<>>
              /\ packet' = Supplied(p, driver)
              /\ raw_detections' = dets
              /\ refined_list' = n.ref
              /\ heap' = n.heap
              /\ fpc' = IF Complete(p) THEN "refine" ELSE "publish"
    /\ cycle' = cycle + 1
    /\ sim_absent' = (driver = "PybulletVision" /\ ReportsAbsent(latest_state))
    /\ last' = <<>>
    /\ UNCHANGED <<servoVars, pipeVars, perception_data, driver, offset, filters,
                   latest_state, world_coords, rd, snap, fed>>

\* the record of a finished refinement: w is what the first part saw, conv
\* and off are self.driver and self.offset as the second part read them
Finished(w, conv, off, emit) ==
    [det |-> w.det, frame |-> w.frame, source |-> w.source,
     driver |-> w.driver, oracle |-> w.oracle,
     before |-> w.before, after |-> w.after, depth |-> w.depth,
     coords |-> w.coords, converter |-> conv, offset |-> off, emit |-> emit]

\* the body of the for loop for the next detection up to the return of
\* self.driver.pixel_to_cm (line 128); a detection without depth or without
\* coordinates is passed over
RefineDetection ==
    /\ fpc = "refine"
    /\ raw_detections # <<>>
    /\ LET det == Head(raw_detections)
           depth_frame == packet[1].depth[1]
           r == Locate(det, depth_frame, driver, latest_state, filters)
           w == [det |-> det, frame |-> depth_frame,
                 source |-> packet[1].driver, driver |-> driver,
                 oracle |-> latest_state, before |-> filters,
                 after |-> r.filters, depth |-> r.depth, coords |-> r.coords]
       IN  /\ filters' = r.filters
           /\ fed' = IF driver = "PybulletVision" /\ r.coords # <<>>
                     THEN fed \cup {det.name} ELSE fed
           /\ IF r.coords = <<>>
              THEN /\ raw_detections' = Tail(raw_detections)
                   /\ last' = <<Finished(w, driver, offset, <<>>)>>
                   /\ UNCHANGED <<fpc, world_coords>>
              ELSE /\ fpc' = "convert"
                   /\ world_coords' = <<w>>
                   /\ last' = <<>>
                   /\ UNCHANGED raw_detections
    /\ UNCHANGED <<servoVars, pipeVars, sharedVars, driver, offset, latest_state,
                   packet, refined_list, cycle, rd, snap, sim_absent>>

\* the rest of the body (lines 130-161): type(self.driver) and self.offset
\* are read again, and the FusedObject is appended
ConvertDetection ==
    /\ fpc = "convert"
    /\ LET w == world_coords[1]
           obj == Emitted(w.det, driver, offset, w.coords[1], CapturedPose(packet),
                          cycle)
       IN  /\ heap' = [heap EXCEPT ![refined_list] = Append(@, obj)]
           /\ last' = <<Finished(w, driver, offset, <<obj>>)>>
    /\ world_coords' = <<>>
    /\ raw_detections' = Tail(raw_detections)
    /\ fpc' = "refine"
    /\ UNCHANGED <<servoVars, pipeVars, perception_data, driver, offset, filters,
                   latest_state, packet, refined_list, cycle, rd, snap, sim_absent, fed>>

\* return refined_list
ReturnRefined ==
    /\ fpc = "refine"
    /\ raw_detections = <<>>
    /\ fpc' = "publish"
    /\ UNCHANGED <<servoVars, pipeVars, sharedVars, driver, offset, filters, latest_state,
                   packet, raw_detections, world_coords, refined_list, cycle, rd, snap,
                   sim_absent, fed, last>>

\* raw_frame = self.bridge.get_raw_frame() and its encoding (image_b64 stays
\* None without a frame or when the encoding fails), then
\* system_state.perception_data = new_perception
Publish ==
    /\ fpc = "publish"
    /\ \E encoded \in BOOLEAN : image_b64' = IF encoded THEN <<cycle>> ELSE <<>>
    /\ perception_data' = [detected_objects |-> refined_list, timestamp |-> cycle]
    /\ snap' = Append(snap, heap[refined_list])
    /\ fpc' = "frame"
    /\ packet' = <<>>
    /\ refined_list' = NoRef
    /\ sim_absent' = FALSE
    /\ last' = <<>>
    /\ UNCHANGED <<servoVars, last_frame_base64, shot, proj, cmd, ctlVars, heap, driver, offset, fed,
                   filters, latest_state, raw_detections, world_coords, cycle, rd>>

\* if image_b64: system_state.last_frame_base64 = image_b64; the cycle ends
StoreFrame ==
    /\ fpc = "frame"
    /\ last_frame_base64' = IF image_b64 # <<>> THEN image_b64 ELSE last_frame_base64
    /\ image_b64' = <<>>
    /\ fpc' = "idle"
    /\ UNCHANGED <<servoVars, sharedVars, shot, proj, cmd, ctlVars, driver, offset, filters,
                   latest_state, packet, raw_detections, world_coords, refined_list, cycle,
                   rd, snap, sim_absent, fed, last>>

\* variant: the handler lets the cycle go on to the assignment of line 58
CycleRaisesPublishing(limit) ==
    /\ fpc \in {"refine", "publish"}
    /\ perception_data' = [detected_objects |-> refined_list, timestamp |-> cycle]
    /\ snap' = Append(snap, heap[refined_list])
    /\ fpc' = "idle"
    /\ packet' = <<>>
    /\ raw_detections' = <<>>
    /\ refined_list' = NoRef
    /\ sim_absent' = FALSE
    /\ last' = <<>>
    /\ UNCHANGED <<servoVars, pipeVars, heap, driver, offset, filters,
                   latest_state, world_coords, cycle, rd, fed>>

\* the frame source or the detector (lines 66, 80), the projector (line 128)
\* or the frame source again (get_raw_frame, line 42) raises: the except
\* clause of _update_loop logs the error, the locals of the cycle are gone and
\* the loop sleeps and goes round
CycleRaises(limit) ==
    /\ \/ /\ fpc = "idle"
          /\ cycle < limit
          /\ cycle' = cycle + 1
       \/ /\ fpc = "refine"
          /\ raw_detections # <<>>
          /\ UNCHANGED cycle
       \/ /\ fpc = "publish"
          /\ UNCHANGED cycle
    /\ fpc' = "idle"
    /\ packet' = <<>>
    /\ raw_detections' = <<>>
    /\ refined_list' = NoRef
    /\ sim_absent' = FALSE
    /\ last' = <<>>
    /\ UNCHANGED <<servoVars, pipeVars, sharedVars, driver, offset, filters,
                   latest_state, world_coords, rd, snap, fed>>

\* self.offset belongs to the source of self.driver: no switch is under way
Switched == \E source \in Sources :
               driver = DriverOf(source) /\ offset = OffsetOf(source)

\* VisionBridge.switch_source, lines 40 and 44: self.driver = a new driver
\* object with new filters; self.offset is still the one of the old source
SwitchSource(source) ==
    /\ Switched
    /\ driver' = DriverOf(source)
    /\ filters' = FiltersInit
    /\ sim_absent' = (sim_absent /\ source = "pybullet")
    /\ fed' = {}
    /\ UNCHANGED <<servoVars, pipeVars, sharedVars, offset, latest_state, fpc, packet,
                   raw_detections, world_coords, refined_list, cycle, rd, snap, last>>

\* VisionBridge.switch_source, lines 41 and 45: self.offset = the offset of
\* the new source
SwitchOffset ==
    /\ ~Switched
    /\ offset' = IF driver = "PybulletVision" THEN SIM_OFFSET ELSE REAL_OFFSET
    /\ UNCHANGED <<servoVars, pipeVars, sharedVars, driver, filters, latest_state, fpc,
                   packet, raw_detections, world_coords, refined_list, cycle, rd,
                   snap, sim_absent, last, fed>>

\* the simulator client stores a new latest_state
OracleUpdate(gt) ==
    /\ gt # latest_state
    /\ latest_state' = gt
    /\ sim_absent' = (sim_absent /\ ReportsAbsent(gt))
    /\ UNCHANGED <<fed, servoVars, pipeVars, sharedVars, driver, offset, filters, fpc, packet,
                   raw_detections, world_coords, refined_list, cycle, rd, snap, last>>

(***************************************************************************)
(* find_target_object, one list item per step                              *)
(***************************************************************************)
\* objects = system_state.perception_data.get("detected_objects", [])
ReadObjects ==
    /\ rd.pc = "idle"
    /\ rd' = [pc |-> "iter", objects |-> perception_data.detected_objects,
              idx |-> 1, seen |-> <<>>]
    /\ UNCHANGED <<servoVars, pipeVars, sharedVars, driver, offset, filters, latest_state,
                   fpc, packet, raw_detections, world_coords, refined_list, cycle, snap,
                   sim_absent, fed, last>>

\* for obj in objects: the next item, or the end of the list
ReadNext ==
    /\ rd.pc = "iter"
    /\ LET objects == IF rd.objects = NoRef THEN <<>> ELSE heap[rd.objects]
       IN  IF rd.idx <= Len(objects)
           THEN rd' = [rd EXCEPT !.seen = Append(@, objects[rd.idx]),
                                 !.idx = @ + 1]
           ELSE rd' = [rd EXCEPT !.pc = "done"]
    /\ UNCHANGED <<servoVars, pipeVars, sharedVars, driver, offset, filters, latest_state,
                   fpc, packet, raw_detections, world_coords, refined_list, cycle, snap,
                   sim_absent, fed, last>>

\* return candidates[0] if candidates else None
ReadReturn ==
    /\ rd.pc = "done"
    /\ rd' = InitRd
    /\ UNCHANGED <<servoVars, pipeVars, sharedVars, driver, offset, filters, latest_state,
                   fpc, packet, raw_detections, world_coords, refined_list, cycle, snap,
                   sim_absent, fed, last>>

(***************************************************************************)
(* SystemPipeline.get_system_snapshot, one entry per step                  *)
(***************************************************************************)
\* "perception": system_state.perception_data
ShotPerception ==
    /\ shot.pc = "idle"
    /\ shot' = [pc |-> "frame", perception |-> perception_data.timestamp,
                last_frame |-> <<>>]
    /\ UNCHANGED <<servoVars, sharedVars, fusionVars, image_b64, last_frame_base64, proj,
                   cmd, ctlVars>>

\* "last_frame": system_state.last_frame_base64
ShotFrame ==
    /\ shot.pc = "frame"
    /\ shot' = [shot EXCEPT !.pc = "done", !.last_frame = last_frame_base64]
    /\ UNCHANGED <<servoVars, sharedVars, fusionVars, image_b64, last_frame_base64, proj,
                   cmd, ctlVars>>

\* return {...}
ShotReturn ==
    /\ shot.pc = "done"
    /\ shot' = InitShot
    /\ UNCHANGED <<servoVars, sharedVars, fusionVars, image_b64, last_frame_base64, proj,
                   cmd, ctlVars>>

(* One caller, stop() from another thread, a refresh loop that replaces the
   snapshot at any moment. *)
ServoSpecInit ==
    /\ ServoInit
    /\ FusionIdle
    /\ perception_data = [detected_objects |-> NoRef, timestamp |-> 0]
    /\ heap = ServoSnapshots

ServoNext ==
    \/ SessionBody(1)
    \/ Stop
    \/ Tick
    \/ Stall
    \/ \E r \in ServoRefs : PerceptionPublish(r)

SpecServo == ServoSpecInit /\ [][ServoNext]_vars

(* One more call on a controller that has served calls before, with its
   scheduling: the caller's thread keeps running (a callback returns or
   raises, a sleep ends) and time passes; stop() and the refresh loop may or
   may not act. *)
\* what an earlier call has left on the controller: it was stopped in DETECT,
\* it used up the detection retries, or it lost the target during the reach
LeftBehind ==
    {[current_state |-> "DETECT", cancel_token |-> TRUE,
      detect_retry |-> 0, loop_retry_start |-> NoneTime,
      detected_objects |-> NoRef],
     [current_state |-> "FAIL", cancel_token |-> FALSE,
      detect_retry |-> DETECT_RETRIES, loop_retry_start |-> NoneTime,
      detected_objects |-> NoRef],
     [current_state |-> "FAIL", cancel_token |-> FALSE,
      detect_retry |-> 0, loop_retry_start |-> LOSS_TIMEOUT + 1,
      detected_objects |-> 1]}

ServoLiveInit ==
    /\ lock = 0
    /\ is_running = FALSE
    /\ \E left \in LeftBehind :
          /\ cancel_token = left.cancel_token
          /\ current_state = left.current_state
          /\ detect_retry = left.detect_retry
          /\ loop_retry_start = left.loop_retry_start
          /\ perception_data = [detected_objects |-> left.detected_objects, timestamp |-> 0]
    /\ GRASP_DEPTH = DEFAULT_GRASP_OFFSET
    /\ pc = [t \in Callers |-> "idle"]
    /\ loc = [t \in Callers |-> InitLoc]
    /\ ee \in EEStarts
    /\ issued = [t \in Callers |-> {}]
    /\ calls = MaxCalls - 1
    /\ sessions = MaxCalls - 1
    /\ hist = [t \in Callers |-> InitHist]
    /\ FusionIdle
    /\ heap = ServoSnapshots

ServoFairness ==
    /\ WF_vars(SessionBody(1))
    /\ WF_vars(Tick)
    /\ WF_vars(Stall)

SpecServoLive == ServoLiveInit /\ [][ServoNext]_vars /\ ServoFairness

(* One caller and a target that moves: the refresh loop publishes the cup at
   one of two places at any moment, also during a reach. *)
MovedSnapshots ==
    <<  <<Cup(Pos(0, 0, 0), 0)>>,
        <<Cup(Pos(40, 0, 0), 0)>> >>

ReachInit ==
    /\ ServoInit
    /\ FusionIdle
    /\ perception_data = [detected_objects |-> NoRef, timestamp |-> 0]
    /\ heap = MovedSnapshots

ReachNext ==
    \/ SessionBody(1)
    \/ Tick
    \/ \E r \in 1..Len(MovedSnapshots) : PerceptionPublish(r)

SpecReach == ReachInit /\ [][ReachNext]_vars

(* Two callers on the one controller and stop(); the snapshot is the one
   published before the calls. *)
CallersInit ==
    /\ ServoInit
    /\ FusionIdle
    /\ perception_data \in {[detected_objects |-> r, timestamp |-> 0] : r \in ServoRefs}
    /\ heap = ServoSnapshots

CallersNext ==
    \/ \E t \in Callers : SessionBody(t) \/ Reject(t)
    \/ Stop
    \/ Tick

SpecCallers == CallersInit /\ [][CallersNext]_vars

(* The refresh loop, the simulator client, a source switch from the UI and a
   look-up of the servo controller, all interleaved. *)
FusionInit ==
    /\ ServoInit
    /\ perception_data = [detected_objects |-> NoRef, timestamp |-> 0]
    /\ heap = <<>>
    /\ FusionIdle

FusionNext ==
    \/ StartCycle(MaxCycles, Packets, DetectionLists)
    \/ RefineDetection
    \/ ConvertDetection
    \/ ReturnRefined
    \/ Publish
    \/ StoreFrame
    \/ CycleRaises(MaxCycles)
    \/ \E source \in Sources : SwitchSource(source)
    \/ SwitchOffset
    \/ \E gt \in Oracles : OracleUpdate(gt)

SpecFusion == FusionInit /\ [][FusionNext]_vars

(* The refresh loop publishing one snapshot after the other while the servo
   controller looks up its target; the simulator reports an object at the
   origin. *)
SnapshotPackets ==
    {<<>>, <<[color |-> TRUE, depth |-> <<Frame(NearDepth, NearDepth)>>,
              captured_pose |-> <<"pose">>]>>}

SnapshotInit ==
    /\ ServoInit
    /\ perception_data = [detected_objects |-> NoRef, timestamp |-> 0]
    /\ heap = <<>>
    /\ driver = "PybulletVision"
    /\ offset = SIM_OFFSET
    /\ filters = FiltersInit
    /\ latest_state = Oracle(TRUE, TRUE, <<Pos(0, 0, 0)>>)
    /\ fpc = "idle"
    /\ packet = <<>>
    /\ raw_detections = <<>>
    /\ world_coords = <<>>
    /\ refined_list = NoRef
    /\ cycle = 0
    /\ rd = InitRd
    /\ snap = <<>>
    /\ sim_absent = FALSE
    /\ last = <<>>
    /\ fed = {}
    /\ PipeIdle

SnapshotNext ==
    \/ StartCycle(MaxSnapshots, SnapshotPackets, DetectionLists)
    \/ RefineDetection
    \/ ConvertDetection
    \/ ReturnRefined
    \/ Publish
    \/ StoreFrame
    \/ CycleRaises(MaxSnapshots)
    \/ ReadObjects
    \/ ReadNext
    \/ ReadReturn

SpecSnapshot == SnapshotInit /\ [][SnapshotNext]_vars

(* The coordinate projector on its own: a pixel of the image and a depth are
   projected, and the planar depth of the resulting world point is taken. *)
ProjUs == {0, 150, 300, 450, 599}
ProjVs == {0, 240, 479}
ProjDepths == {1, 500, NearDepth, DeepDepth, MAX_DEPTH - 10}

Project(u, v, depth_m) ==
    /\ proj.pc = "idle"
    /\ proj' = [pc |-> "projected", u |-> u, v |-> v, depth_m |-> depth_m,
                world |-> <<pixel_to_3d(u, v, depth_m)>>, back |-> 0]
    /\ UNCHANGED <<servoVars, sharedVars, fusionVars, image_b64,
                   last_frame_base64, shot, cmd, ctlVars>>

PlanarDepth ==
    /\ proj.pc = "projected"
    /\ proj' = [proj EXCEPT !.pc = "done",
                            !.back = calculate_planar_depth(proj.world[1])]
    /\ UNCHANGED <<servoVars, sharedVars, fusionVars, image_b64,
                   last_frame_base64, shot, cmd, ctlVars>>

ProjectionDone ==
    /\ proj.pc = "done"
    /\ proj' = InitProj
    /\ UNCHANGED <<servoVars, sharedVars, fusionVars, image_b64,
                   last_frame_base64, shot, cmd, ctlVars>>

ProjectionNext ==
    \/ \E u \in ProjUs, v \in ProjVs, depth_m \in ProjDepths : Project(u, v, depth_m)
    \/ PlanarDepth
    \/ ProjectionDone

SpecProjection == FusionInit /\ [][ProjectionNext]_vars

(* One tick of the reaching loop on its own: the end-effector position, the
   target and the phase are drawn, and the tick issues its motion command. *)
CmdPhases == {"APPROACH", "DESCEND"}
CmdEEs == {Pos(x, y, z) : x \in {0, 29, 30, 99, 100}, y \in {0, -40}, z \in {0, 30, 80}}
CmdTargets == {Pos(0, 0, 0), Pos(-20, 10, 5)}

TickCommand(phase, current_ee, target_pos, grasp_depth) ==
    /\ cmd.pc = "idle"
    /\ ~TickSucceeds(phase, current_ee, target_pos, grasp_depth)
    /\ cmd' = [pc |-> "issued", phase |-> phase, ee |-> current_ee,
               target |-> target_pos, depth |-> grasp_depth,
               out |-> <<MoveCommand(phase, current_ee, target_pos, grasp_depth)>>]
    /\ UNCHANGED <<servoVars, sharedVars, fusionVars, image_b64,
                   last_frame_base64, shot, proj, ctlVars>>

TickCommandDone ==
    /\ cmd.pc = "issued"
    /\ cmd' = InitCmd
    /\ UNCHANGED <<servoVars, sharedVars, fusionVars, image_b64,
                   last_frame_base64, shot, proj, ctlVars>>

CommandNext ==
    \/ \E phase \in CmdPhases, current_ee \in CmdEEs, target_pos \in CmdTargets,
          grasp_depth \in GraspOffsets :
          TickCommand(phase, current_ee, target_pos, grasp_depth)
    \/ TickCommandDone

SpecCommand == FusionInit /\ [][CommandNext]_vars

(***************************************************************************)
(* PerceptionManager.start, stop and _update_loop (lines 23-36, 68)        *)
(***************************************************************************)
\* start() calls that are past the test of self.running
Starting == {c \in Users : mgr.pc[c] \in {"set", "spawn"}}

\* start(): if self.running: return / self.running = True /
\* self.thread = threading.Thread(...); self.thread.start()
ManagerStart(c) ==
    /\ \/ /\ mgr.pc[c] = "idle"
          /\ ~mgr.running
          /\ mgr.spawned + Cardinality(Starting) < MaxLoops
          /\ mgr' = [mgr EXCEPT !.pc[c] = "set"]
       \/ /\ mgr.pc[c] = "set"
          /\ mgr' = [mgr EXCEPT !.running = TRUE, !.pc[c] = "spawn"]
       \/ /\ mgr.pc[c] = "spawn"
          /\ mgr' = [mgr EXCEPT !.thread = mgr.spawned + 1,
                                !.spawned = mgr.spawned + 1,
                                !.loop[mgr.spawned + 1] = "head",
                                !.pc[c] = "idle"]
    /\ UNCHANGED <<servoVars, sharedVars, fusionVars, image_b64,
                   last_frame_base64, shot, proj, cmd, bc>>

\* self.thread.join(timeout=2.0) returns: the thread has ended, or 2 s have
\* passed while it is in a cycle or has found self.running true again
JoinReturns(n) ==
    \/ mgr.loop[n] \in {"ended", "body"}
    \/ mgr.loop[n] = "head" /\ mgr.running

\* stop(): self.running = False / if self.thread: self.thread.join(timeout=2.0)
ManagerStop(c) ==
    /\ \/ /\ mgr.pc[c] = "idle"
          /\ mgr.running \/ mgr.thread # 0
          /\ mgr' = [mgr EXCEPT !.running = FALSE,
                                !.pc[c] = IF mgr.thread # 0 THEN "join" ELSE "idle"]
       \/ /\ mgr.pc[c] = "join"
          /\ JoinReturns(mgr.thread)
          /\ mgr' = [mgr EXCEPT !.pc[c] = "idle"]
    /\ UNCHANGED <<servoVars, sharedVars, fusionVars, image_b64,
                   last_frame_base64, shot, proj, cmd, bc>>

\* _update_loop of loop thread n: while self.running: (a cycle, then
\* time.sleep(self.interval)); the thread ends when the test fails
UpdateLoop(n) ==
    /\ \/ /\ mgr.loop[n] = "head"
          /\ mgr' = [mgr EXCEPT !.loop[n] = IF mgr.running THEN "body" ELSE "ended"]
       \/ /\ mgr.loop[n] = "body"
          /\ mgr' = [mgr EXCEPT !.loop[n] = "head"]
    /\ UNCHANGED <<servoVars, sharedVars, fusionVars, image_b64,
                   last_frame_base64, shot, proj, cmd, bc>>

LoopsNext ==
    \/ \E c \in Users : ManagerStart(c) \/ ManagerStop(c)
    \/ \E n \in 1..MaxLoops : UpdateLoop(n)

SpecLoops == FusionInit /\ [][LoopsNext]_vars

(***************************************************************************)
(* StateBroadcaster (shared/state_broadcaster.py): publish, log_chat,      *)
(* get_snapshot and the subscriber callbacks, as the call stack of each    *)
(* thread; a frame is the function, its key, its position and, in the      *)
(* notification loop, the subscriber in turn                               *)
(***************************************************************************)
BroadcastCalls ==
    {[fn |-> "publish", key |-> "agent_thought"],
     [fn |-> "publish", key |-> "perception"],
     [fn |-> "log_chat", key |-> "none"],
     [fn |-> "get_snapshot", key |-> "none"]}

\* the frame of a call that has just been entered
Entered(call) ==
    [fn |-> call.fn, key |-> call.key,
     pc |-> IF call.fn = "publish" THEN "start" ELSE "lock",
     idx |-> 0, called |-> {}, raised |-> FALSE]

\* sub(snapshot) for subscriber i
CallbackOf(i) ==
    [fn |-> "callback", key |-> "none", pc |-> "run", idx |-> i, called |-> {},
     raised |-> FALSE]

Top(t) == bc.stack[t][Len(bc.stack[t])]
Below(stk) == SubSeq(stk, 1, Len(stk) - 1)
WithTop(stk, f) == [stk EXCEPT ![Len(stk)] = f]

\* the top frame returns; a notification loop below it goes on to the next
\* subscriber
Returned(stk) ==
    LET rest == Below(stk)
    IN  IF rest # <<>> /\ rest[Len(rest)].pc = "notify"
        THEN WithTop(rest, [rest[Len(rest)] EXCEPT !.idx = @ + 1])
        ELSE rest

\* variant: there is no handler around sub(snapshot), the exception leaves
\* the notification loop and the function that runs it
SubscriberRaisedEscaping(stk) == Below(Below(stk))

\* try: sub(snapshot) / except: the exception of a subscriber is dropped and
\* the loop goes on (lines 43-45, 70-74)
SubscriberRaised(stk) ==
    LET rest == Below(stk)
    IN  WithTop(rest, [rest[Len(rest)] EXCEPT !.idx = @ + 1, !.raised = TRUE])

\* variant: the subscribers are called inside the with block
WithBlockHeld(holder) == holder

\* the end of a with self._lock block: the lock is released
WithBlockEnd(holder) == 0

\* a thread calls publish(key, value), log_chat or get_snapshot
BroadcastCall(t) ==
    /\ bc.stack[t] = <<>>
    /\ \E call \in BroadcastCalls :
          bc' = [bc EXCEPT !.stack[t] = <<Entered(call)>>]
    /\ UNCHANGED <<servoVars, sharedVars, fusionVars, image_b64,
                   last_frame_base64, shot, proj, cmd, mgr>>

\* publish, lines 61-62: if key == "agent_thought": self.log_thought(...),
\* which calls log_chat
PublishStart(t) ==
    /\ bc.stack[t] # <<>>
    /\ Top(t).pc = "start"
    /\ LET stk == WithTop(bc.stack[t], [Top(t) EXCEPT !.pc = "lock"])
       IN  bc' = [bc EXCEPT !.stack[t] =
                     IF Top(t).key = "agent_thought"
                     THEN Append(stk, Entered([fn |-> "log_chat", key |-> "none"]))
                     ELSE stk]
    /\ UNCHANGED <<servoVars, sharedVars, fusionVars, image_b64,
                   last_frame_base64, shot, proj, cmd, mgr>>

\* with self._lock: the thread takes the lock when it is free
LockAcquire(t) ==
    /\ bc.stack[t] # <<>>
    /\ Top(t).pc = "lock"
    /\ bc.lock = 0
    /\ bc' = [bc EXCEPT !.lock = t,
                        !.stack[t] = WithTop(@, [Top(t) EXCEPT !.pc = "held"])]
    /\ UNCHANGED <<servoVars, sharedVars, fusionVars, image_b64,
                   last_frame_base64, shot, proj, cmd, mgr>>

\* the body of the with block (latest_state updated and copied) and its end;
\* get_snapshot returns the copy, publish and log_chat go on to their loop
LockRelease(t) ==
    /\ bc.stack[t] # <<>>
    /\ Top(t).pc = "held"
    /\ bc' = [bc EXCEPT !.lock = WithBlockEnd(t),
                        !.stack[t] =
                           IF Top(t).fn = "get_snapshot" THEN Returned(@)
                           ELSE WithTop(@, [Top(t) EXCEPT !.pc = "notify",
                                                          !.idx = 1])]
    /\ UNCHANGED <<servoVars, sharedVars, fusionVars, image_b64,
                   last_frame_base64, shot, proj, cmd, mgr>>

\* for sub in self.subscribers: sub(snapshot); the function returns after
\* the last one
Notify(t) ==
    /\ bc.stack[t] # <<>>
    /\ Top(t).pc = "notify"
    /\ bc' = [bc EXCEPT !.stack[t] =
                  IF Top(t).idx \in Subscribers
                  THEN Append(WithTop(@, [Top(t) EXCEPT !.called =
                                                     @ \cup {Top(t).idx}]),
                              CallbackOf(Top(t).idx))
                  ELSE Returned(@)]
    /\ UNCHANGED <<servoVars, sharedVars, fusionVars, image_b64,
                   last_frame_base64, shot, proj, cmd, mgr>>

\* a subscriber's callback: it returns, it raises, or it calls the
\* broadcaster itself and returns after that call
SubscriberRuns(t) ==
    /\ bc.stack[t] # <<>>
    /\ Top(t).fn = "callback"
    /\ \/ /\ Top(t).pc = "run"
          /\ \/ bc' = [bc EXCEPT !.stack[t] = Returned(@)]
             \/ bc' = [bc EXCEPT !.stack[t] = SubscriberRaised(@)]
             \/ /\ Len(bc.stack[t]) < MaxStack
                /\ \E call \in BroadcastCalls :
                      bc' = [bc EXCEPT !.stack[t] =
                                Append(WithTop(@, [Top(t) EXCEPT !.pc = "after"]),
                                       Entered(call))]
       \/ /\ Top(t).pc = "after"
          /\ bc' = [bc EXCEPT !.stack[t] = Returned(@)]
    /\ UNCHANGED <<servoVars, sharedVars, fusionVars, image_b64,
                   last_frame_base64, shot, proj, cmd, mgr>>

BroadcastNext ==
    \E t \in Publishers :
       \/ BroadcastCall(t)
       \/ PublishStart(t)
       \/ LockAcquire(t)
       \/ LockRelease(t)
       \/ Notify(t)
       \/ SubscriberRuns(t)

SpecBroadcast == FusionInit /\ [][BroadcastNext]_vars

(* The refresh loop publishing detections and frames while the UI stream
   takes system snapshots. *)
PipelineNext ==
    \/ StartCycle(MaxSnapshots, SnapshotPackets, DetectionLists)
    \/ RefineDetection
    \/ ConvertDetection
    \/ ReturnRefined
    \/ Publish
    \/ StoreFrame
    \/ CycleRaises(MaxSnapshots)
    \/ ShotPerception
    \/ ShotFrame
    \/ ShotReturn

SpecPipeline == SnapshotInit /\ [][PipelineNext]_vars

(***************************************************************************)
(* Properties of the servo controller                                      *)
(***************************************************************************)
ActiveCallers == {t \in Callers : Active(t)}

\* C1: for any interleaving of concurrent execute_approach_and_grasp calls at
\* most one call is active at any time; is_running is set as long as a call
\* is active, so every is_running check made meanwhile rejects; no call is
\* admitted while another is active, and a rejected call returns False
\* without ever having been admitted (it is not queued).
C1_SingleActiveSession ==
    /\ Cardinality(ActiveCallers) <= 1
    /\ \A t \in Callers :
         /\ Active(t) => is_running
         /\ ~hist[t].overlap
         /\ (pc[t] = "return" /\ ~hist[t].admitted) => ~loc[t].success

C1_Witness ==
    \E t, u \in Callers :
       /\ t # u
       /\ Active(u)
       /\ pc[t] = "return"
       /\ hist[t].busyReject
       /\ ~loc[t].success

SessionState == <<is_running, cancel_token, current_state, GRASP_DEPTH,
                  detect_retry, loop_retry_start>>

\* C2: a start call rejected because a session is active returns False at
\* once and changes neither is_running, the cancel flag, current_state,
\* GRASP_DEPTH, the detection-retry counter nor the object-loss timer, and it
\* issues no actuator command and no broadcast; it never has to wait for the
\* session, because the lock is only held during the admission lines.
C2_RejectedCallFrame ==
    [][\A t \in Callers :
         /\ (pc[t] = "check" /\ pc'[t] = "return")
               => /\ UNCHANGED SessionState
                  /\ UNCHANGED <<ee, issued>>
                  /\ issued[t] = {}
                  /\ ~loc'[t].success
         /\ lock # 0 => pc[lock] \in {"check", "clear", "setidle"}]_vars

C2_Witness ==
    \E t, u \in Callers :
       /\ t # u
       /\ pc[t] = "return"
       /\ hist[t].busyReject
       /\ pc[u] = "reach_tick"
       /\ cancel_token
       /\ GRASP_DEPTH # loc[t].offset

\* C3: once the GRASP settle wait has completed without cancellation, the
\* session returns True, also when stop() sets the cancel flag afterwards.
C3_CommittedSuccessStands ==
    \A t \in Callers :
       (pc[t] = "return" /\ hist[t].committed) => loc[t].success

C3_Witness ==
    \E t \in Callers :
       /\ pc[t] = "return"
       /\ hist[t].committed
       /\ hist[t].lateStop
       /\ cancel_token
       /\ loc[t].success

\* C4: a session during which stop() was called while it was active and
\* before its GRASP settle wait had completed returns False.
C4_StopAlwaysAborts ==
    \A t \in Callers :
       (pc[t] = "return" /\ hist[t].stopSeen) => ~loc[t].success

\* C5: the first session of a controller, with the target never found and no
\* stop(), fails after exactly 3 detection retries: 4 look-ups, each followed
\* by a completed 1 s wait, the retry counter at 3; a new look-up is made only
\* after the wait of the previous one, and the session ends through FAIL with
\* the result False.
FirstUnseen(t) ==
    /\ sessions = 1
    /\ hist[t].admitted
    /\ ~hist[t].found
    /\ ~hist[t].stopSeen
    /\ hist[t].fault = "none"

C5_ThreeDetectionRetries ==
    \A t \in Callers :
       FirstUnseen(t) =>
          /\ hist[t].lookups <= DETECT_RETRIES + 1
          /\ hist[t].lookups - hist[t].waits \in {0, 1}
          /\ detect_retry = Min(hist[t].waits, DETECT_RETRIES)
          /\ current_state = "FAIL"
                => /\ detect_retry = DETECT_RETRIES
                   /\ hist[t].lookups = DETECT_RETRIES + 1
                   /\ hist[t].waits = DETECT_RETRIES + 1
          /\ pc[t] \in {"finally", "finally2", "return"}
                => /\ current_state = "FAIL"
                   /\ ~loc[t].success

C5_Witness ==
    \E t \in Callers :
       /\ FirstUnseen(t)
       /\ pc[t] = "return"
       /\ current_state = "FAIL"
       /\ hist[t].lookups = DETECT_RETRIES + 1
       /\ ~loc[t].success

\* C6: when at the first tick of a reach the end-effector is within 1.0 cm XY
\* and 0.5 cm Z of the goal, the first tick only switches APPROACH to DESCEND,
\* the second tick returns success, and no move_robot command is issued.
C6_NoCorrectionAtGoal ==
    \A t \in Callers :
       (pc[t] \in ReachPcs /\ hist[t].atGoal) =>
          /\ hist[t].moves = 0
          /\ hist[t].ticks <= 1
          /\ hist[t].ticks = 1 => loc[t].phase = "DESCEND"

(***************************************************************************)
(* Properties of the perception fusion                                     *)
(***************************************************************************)
\* C7: a fusion cycle that runs on the simulated source while the oracle
\* reports exists=False emits nothing: whatever the pixels, boxes and depths
\* of its detections, the list it builds and returns is empty.
C7_AbsentOracleDropsAll ==
    (fpc \in {"refine", "publish"} /\ sim_absent) =>
       /\ heap[refined_list] = <<>>
       /\ last # <<>> => last[1].emit = <<>>

C7_Witness ==
    /\ fpc = "publish"
    /\ sim_absent
    /\ heap[refined_list] = <<>>
    /\ last # <<>>
    /\ last[1].depth > 0
    /\ Len(ValidDepths(last[1].frame, last[1].det)) > 0

\* the refinement just made ran on the simulator from end to end against an
\* oracle reporting an object 20 cm or more from the raw projection
FarOracle(l) ==
    /\ l.driver = "PybulletVision"
    /\ l.converter = "PybulletVision"
    /\ l.depth > 0
    /\ l.oracle.exists
    /\ l.oracle.pos # <<>>
    /\ DistSq(pixel_to_3d(l.det.pixel_center[1], l.det.pixel_center[2], l.depth),
              l.oracle.pos[1]) >= ORACLE_DIST_SQ

\* C8: on the simulated source, with the oracle reporting an object whose
\* squared distance from the raw projection is 400 cm^2 or more (400
\* included), pixel_to_cm returns the axis filters' estimates after an update
\* with the raw projection, the filters hold that update (no reset), and the
\* detection is emitted with that position rounded to 0.01 cm.
C8_FarOracleUsesFilters ==
    last # <<>> =>
       LET l == last[1]
           raw == pixel_to_3d(l.det.pixel_center[1], l.det.pixel_center[2], l.depth)
           g == UpdateAll(l.before, raw)
       IN  FarOracle(l) =>
              /\ l.after = g
              /\ l.coords = <<Estimates(g)>>
              /\ l.emit # <<>>
              /\ l.emit[1].position = RoundPos(Estimates(g))

C8_Witness ==
    /\ last # <<>>
    /\ FarOracle(last[1])
    /\ DistSq(pixel_to_3d(last[1].det.pixel_center[1],
                          last[1].det.pixel_center[2], last[1].depth),
              last[1].oracle.pos[1]) = ORACLE_DIST_SQ
    /\ last[1].emit # <<>>
    /\ last[1].after # ResetAll(last[1].before, last[1].oracle.pos[1])

\* the point depth at the detection centre is no valid measurement
InvalidPoint(frame, det) ==
    \/ ~CentreInside(frame, det)
    \/ PointDepth(frame, det) <= 0
    \/ PointDepth(frame, det) >= MAX_DEPTH

\* C9: a detection whose depth ROI holds no valid sample gets the point depth
\* at its centre, and when that point depth is invalid (<= 0, beyond the
\* 3.0 m range, or the centre outside the depth map) nothing is emitted.
C9_InvalidPointRejected ==
    last # <<>> =>
       LET l == last[1]
       IN  Len(ValidDepths(l.frame, l.det)) = 0 =>
              /\ l.depth = PointDepth(l.frame, l.det)
              /\ InvalidPoint(l.frame, l.det) => l.emit = <<>>

\* C10: the items a look-up has read are always a prefix of the list one
\* cycle published, all made by that cycle; a finished look-up has read the
\* whole list of that cycle, or nothing when no cycle had published yet.
FromCycle(c, seen) ==
    /\ Len(seen) <= Len(snap[c])
    /\ \A i \in 1..Len(seen) : seen[i] = snap[c][i]
    /\ \A i \in 1..Len(snap[c]) : snap[c][i].cyc = snap[c][1].cyc

C10_SnapshotOfOneCycle ==
    rd.pc \in {"iter", "done"} =>
       IF rd.objects = NoRef
       THEN rd.seen = <<>>
       ELSE \E c \in 1..Len(snap) :
               /\ FromCycle(c, rd.seen)
               /\ rd.pc = "done" => rd.seen = snap[c]

C10_Witness ==
    /\ rd.pc = "done"
    /\ Len(rd.seen) = 2
    /\ perception_data.detected_objects # rd.objects
    /\ heap[perception_data.detected_objects] # <<>>
    /\ heap[perception_data.detected_objects] # rd.seen

(***************************************************************************)
(* Properties of the servo controller: termination and faults              *)
(***************************************************************************)
\* C11: every admitted session terminates and returns a boolean: with the
\* caller's thread running and time passing, a call that is inside a session
\* always comes to its return with success either True or False; target loss
\* in DETECT, the reach and the GRASP settle are all bounded.
C11_SessionTerminates ==
    \A t \in Callers :
       (hist[t].admitted /\ Active(t))
          ~> (pc[t] = "return" /\ loc[t].success \in BOOLEAN)

C11_Witness ==
    \E t \in Callers :
       /\ pc[t] = "return"
       /\ hist[t].admitted
       /\ hist[t].reachEnd = "timeout"
       /\ ~cancel_token
       /\ ~loc[t].success

(***************************************************************************)
(* Properties of the coordinate projector                                  *)
(***************************************************************************)
\* the resolution of the integer arithmetic used here: lengths are rounded to
\* 0.001 cm and cos(45 deg) is kept as 0.707, so that 2 * 0.707^2 = 0.9997
RoundTripTolerance(depth_m) == DivR(depth_m * 4, 10000) + 2

\* C15: for every pixel of the image and every depth > 0, the planar depth of
\* the world point pixel_to_3d returns is the depth projected, within the
\* tolerance of the arithmetic.
C15_ProjectionRoundTrip ==
    proj.pc = "done" =>
       Abs(proj.back - proj.depth_m) <= RoundTripTolerance(proj.depth_m)

C15_Witness ==
    /\ proj.pc = "done"
    /\ proj.u = 599
    /\ proj.v = 479
    /\ proj.depth_m = MAX_DEPTH - 10
    /\ proj.world[1].y # 0
    /\ Abs(proj.back - proj.depth_m) <= RoundTripTolerance(proj.depth_m)

(***************************************************************************)
(* Properties of the system snapshot                                       *)
(***************************************************************************)
\* the cycle a stored frame stems from; no frame stems from construction
FrameCycle(frame) == IF frame = <<>> THEN 0 ELSE frame[1]

\* C13: the 'perception' entry and the 'last_frame' entry of a returned
\* system snapshot stem from the same update cycle of the refresh loop.
C13_SnapshotEntriesOfOneCycle ==
    (shot.pc = "done" /\ shot.last_frame # <<>>)
       => FrameCycle(shot.last_frame) = shot.perception

Faults == {"get_ee_position", "find_target_object", "move_robot", "move_gripper"}

\* C12: when get_ee_position, move_robot, move_gripper or the perception
\* look-up raises during an admitted session, the fault never leaves the call:
\* the call goes through its finally clause and returns False, and is_running
\* is reset, so the controller is not left busy.
C12_FaultsBecomeFalse ==
    \A t \in Callers :
       /\ pc[t] # "raised"
       /\ (hist[t].fault \in Faults /\ pc[t] \in {"finally", "finally2", "return"})
             => ~loc[t].success
       /\ (hist[t].fault \in Faults /\ Active(t)) => pc[t] = "finally"
       /\ (hist[t].fault \in Faults /\ pc[t] \in {"finally2", "return"})
             => ~is_running

C12_Witness ==
    \E t \in Callers :
       /\ pc[t] = "return"
       /\ hist[t].fault = "move_gripper"
       /\ current_state = "GRASP"
       /\ ~cancel_token
       /\ ~loc[t].success
       /\ ~is_running

(***************************************************************************)
(* Properties of the servo state machine                                   *)
(***************************************************************************)
Edges ==
    {<<"IDLE", "DETECT">>, <<"DETECT", "VISUAL_SERVO">>,
     <<"VISUAL_SERVO", "GRASP">>, <<"GRASP", "SUCCESS">>,
     <<"DETECT", "FAIL">>, <<"VISUAL_SERVO", "FAIL">>}

\* C14: current_state changes only along IDLE->DETECT, DETECT->VISUAL_SERVO,
\* VISUAL_SERVO->GRASP, GRASP->SUCCESS, DETECT->FAIL and VISUAL_SERVO->FAIL,
\* or by the reset to IDLE in the admission of a new session; no state is
\* skipped and no edge leads backwards during a session.
C14_ForwardEdgesOnly ==
    [][current_state' # current_state =>
          \/ <<current_state, current_state'>> \in Edges
          \/ /\ current_state' = "IDLE"
             /\ \E t \in Callers : pc[t] = "setidle" /\ pc'[t] = "begin"]_vars

C14_Witness ==
    \E t \in Callers :
       /\ sessions = 2
       /\ pc[t] = "grasp_wait"
       /\ current_state = "GRASP"
       /\ hist[t].found
       /\ hist[t].reachOk

\* a session in which the target was never found, without stop() and faults
Unseen(t) ==
    /\ hist[t].admitted
    /\ ~hist[t].found
    /\ ~hist[t].stopSeen
    /\ hist[t].fault = "none"

\* C16: the detection-retry counter is zero when a session starts, and every
\* session that never finds its target, an earlier session having used up
\* its retries or not, reaches FAIL after 4 look-ups and 4 waits.
C16_RetryBudgetPerSession ==
    \A t \in Callers :
       /\ pc[t] = "begin" => detect_retry = 0
       /\ (Unseen(t) /\ current_state = "FAIL"
              /\ pc[t] \in ActivePcs \ {"clear", "setidle"})
             => /\ hist[t].lookups = DETECT_RETRIES + 1
                /\ hist[t].waits = DETECT_RETRIES + 1

\* C17: in every reach, those of later sessions included, the reach fails for
\* target loss only when the look-ups of that reach have missed in a row for
\* more than 2.0 s; a hit ends the streak, and a streak of at most 2.0 s
\* never fails the reach.
C17_LossOnlyAfterTwoSeconds ==
    \A t \in Callers :
       hist[t].reachEnd = "lost" => hist[t].lostStreak > LOSS_TIMEOUT

\* C18: the 60 s timeout of a reach is measured from the start of the loop:
\* the elapsed time never goes back while the reach runs, neither at the
\* APPROACH->DESCEND transition nor during a loss period, and a loop head
\* reached more than 60 s after the start returns failure whatever the phase
\* (at 60 s or less, and not cancelled, the loop goes on).
C18_TimeoutFromReachStart ==
    [][\A t \in Callers :
         /\ (pc[t] \in ReachPcs /\ pc'[t] \in ReachPcs)
               => loc'[t].reachAge >= loc[t].reachAge
         /\ (pc[t] = "reach_check" /\ pc'[t] # "reach_check")
               => IF loc[t].reachAge > REACH_TIMEOUT
                  THEN /\ pc'[t] = "loop"
                       /\ current_state' = "FAIL"
                       /\ ~hist'[t].reachOk
                       /\ hist'[t].reachEnd \in {"timeout", "cancel"}
                  ELSE cancel_token \/ pc'[t] = "reach_tick"]_vars

\* a reach that timed out in DESCEND while the target was missing
C18_Witness ==
    \E t \in Callers :
       /\ hist[t].reachEnd = "timeout"
       /\ hist[t].endPhase = "DESCEND"
       /\ loop_retry_start # NoneTime
       /\ current_state = "FAIL"

\* C19: the milestones of a session happen in one order and once each: the
\* target found in DETECT, the reaching loop returning success, the
\* move_gripper(0) command, the 3.5 s settle wait run to its end with the
\* cancel flag not set; no move_robot command follows the gripper command;
\* and a session returns True only after all four.
GraspOrder == <<"found", "reached", "grip", "settled">>

C19_TrueOnlyAfterSettledGrasp ==
    \A t \in Callers :
       /\ Len(hist[t].trail) <= Len(GraspOrder)
       /\ hist[t].trail = SubSeq(GraspOrder, 1, Len(hist[t].trail))
       /\ (pc[t] = "grasp_wait" /\ loc[t].waitState = "timedout"
               /\ ~hist[t].lateStop) => ~cancel_token
       /\ (pc[t] = "return" /\ loc[t].success) => hist[t].trail = GraspOrder

C19_Witness ==
    \E t \in Callers :
       /\ pc[t] = "return"
       /\ loc[t].success
       /\ hist[t].trail = GraspOrder
       /\ issued[t] = {"broadcast", "move", "gripper"}

\* C20: the reaching loop returns False only at the loop head on cancellation
\* or after more than 60 s, or in a tick whose look-up misses with the loss
\* timer above 2.0 s; a DESCEND tick with a Z error above 3.0 cm that raises
\* nothing issues its motion command and leaves the reach running in DESCEND.
ReachTarget == find_target_object(TargetLabel, DetectedObjects(perception_data, heap))

C20_OnlyThreeWaysToFail ==
    [][\A t \in Callers :
         /\ (pc[t] \in ReachPcs /\ pc'[t] = "loop" /\ current_state' = "FAIL")
               => \/ pc[t] = "reach_check" /\ cancel_token
                  \/ pc[t] = "reach_check" /\ loc[t].reachAge > REACH_TIMEOUT
                  \/ /\ pc[t] = "reach_tick"
                     /\ ReachTarget = <<>>
                     /\ loop_retry_start > LOSS_TIMEOUT
         /\ (/\ pc[t] = "reach_tick" /\ pc'[t] # "reach_tick"
             /\ ReachTarget # <<>>
             /\ ZExcessive(loc[t].phase, ee, ReachTarget[1].position, GRASP_DEPTH)
             /\ hist'[t].fault = "none")
               => /\ pc'[t] = "reach_check"
                  /\ loc'[t].phase = "DESCEND"
                  /\ current_state' = current_state
                  /\ "move" \in issued'[t]]_vars

\* a reach that went through a DESCEND tick with excessive Z error and
\* later returned success
C20_Witness ==
    \E t \in Callers :
       /\ hist[t].warned
       /\ hist[t].reachEnd = "ok"
       /\ current_state = "GRASP"

\* C22: in a session started without a grasp-depth offset (the parameter is
\* then bound to its default), the vertical coordinate of the DESCEND goal
\* is that of the target plus 0.
C22_DefaultDepthOffsetIsZero ==
    \A t \in Callers :
       (/\ pc[t] \in ReachPcs
        /\ loc[t].offset = DEFAULT_GRASP_OFFSET
        /\ ReachTarget # <<>>)
          => DescendGoal(ReachTarget[1].position, GRASP_DEPTH).z
               = ReachTarget[1].position.z + 0

(***************************************************************************)
(* Properties of the motion command                                        *)
(***************************************************************************)
\* the goal of the phase the tick is in, and the squared total error
CmdGoal ==
    IF cmd.phase = "APPROACH"
    THEN Pos(cmd.target.x, cmd.target.y, cmd.target.z + APPROACH_HEIGHT)
    ELSE Pos(cmd.target.x, cmd.target.y, cmd.target.z + cmd.depth)

CmdError2 ==
    (CmdGoal.x - cmd.ee.x) * (CmdGoal.x - cmd.ee.x)
    + (CmdGoal.y - cmd.ee.y) * (CmdGoal.y - cmd.ee.y)
    + (CmdGoal.z - cmd.ee.z) * (CmdGoal.z - cmd.ee.z)

\* c is a + 0.8 (g - a), to the half of a length unit
EightTenths(a, g, c) == 2 * Abs(GAIN_DEN * (c - a) - GAIN_NUM * (g - a)) <= GAIN_DEN

C23_TransientOnlyWhileActive ==
    ~is_running => current_state \in {"IDLE", "SUCCESS", "FAIL"}

(***************************************************************************)
(* Properties of the perception fusion, continued                          *)
(***************************************************************************)
\* the refinement just made ran on the simulator from end to end against an
\* oracle reporting an object less than 20 cm from the raw projection
NearOracle(l) ==
    /\ l.driver = "PybulletVision"
    /\ l.converter = "PybulletVision"
    /\ l.depth > 0
    /\ l.oracle.exists
    /\ l.oracle.pos # <<>>
    /\ DistSq(pixel_to_3d(l.det.pixel_center[1], l.det.pixel_center[2], l.depth),
              l.oracle.pos[1]) < ORACLE_DIST_SQ

\* C24: on the simulated source, with the oracle reporting an object whose
\* squared distance from the raw projection is below 400 cm^2, the position
\* emitted is the projection of the detection's own pixel with the planar
\* depth of the oracle's position, and after the step the estimate of each
\* axis filter is the emitted coordinate (the filters are reset).
C24_NearOracleReprojectsPixel ==
    last # <<>> =>
       LET l == last[1]
           p == pixel_to_3d(l.det.pixel_center[1], l.det.pixel_center[2],
                            calculate_planar_depth(l.oracle.pos[1]))
       IN  NearOracle(l) =>
              /\ l.coords = <<p>>
              /\ Estimates(l.after) = p
              /\ l.emit # <<>>
              /\ l.emit[1].position = RoundPos(p)

\* the position emitted is neither the oracle's position nor the raw
\* projection, and the filters held another estimate before
C24_Witness ==
    /\ last # <<>>
    /\ NearOracle(last[1])
    /\ last[1].coords # <<>>
    /\ last[1].coords[1] # last[1].oracle.pos[1]
    /\ last[1].coords[1] # pixel_to_3d(last[1].det.pixel_center[1],
                                       last[1].det.pixel_center[2], last[1].depth)
    /\ Estimates(last[1].before) # last[1].coords[1]
    /\ Estimates(last[1].before) # Pos(0, 0, 0)

\* C25: on the simulated source, with no object record in the simulator
\* state (hence no exists flag), a detection with a valid depth is not
\* dropped: its raw projection is run through the axis filters and emitted.
C25_NoOracleUsesFilters ==
    last # <<>> =>
       LET l == last[1]
           raw == pixel_to_3d(l.det.pixel_center[1], l.det.pixel_center[2], l.depth)
           g == UpdateAll(l.before, raw)
       IN  (l.driver = "PybulletVision" /\ ~l.oracle.record /\ l.depth > 0) =>
              /\ l.after = g
              /\ l.coords = <<Estimates(g)>>
              /\ l.emit # <<>>

\* C26: the position of an emitted FusedObject is the projector's value plus
\* the camera-to-base offset, once, when the camera-relative projector
\* (physical camera) produced the value, and the value itself when the
\* world-relative projector (simulation) produced it.
C26_OffsetMatchesProjector ==
    (last # <<>> /\ last[1].emit # <<>>) =>
       LET l == last[1]
           w == l.coords[1]
       IN  l.emit[1].position =
              IF l.driver = "RealSenseVision"
              THEN RoundPos(Pos(w.x + l.offset.x, w.y + l.offset.y, w.z + l.offset.z))
              ELSE RoundPos(w)

\* C27: a cycle whose frame source returned no packet, or a packet in which
\* color, depth or captured_pose is missing, is discarded: the detector is
\* not run (the cycle goes straight to publishing) and nothing is emitted.
C27_IncompleteFrameDiscarded ==
    (/\ fpc \in {"refine", "convert", "publish"}
     /\ packet # <<>>
     /\ \/ ~packet[1].color
        \/ packet[1].depth = <<>>
        \/ packet[1].captured_pose = <<>>)
       => /\ fpc = "publish"
          /\ heap[refined_list] = <<>>

\* the FusedObject list the servo controller sees
Visible ==
    IF perception_data.detected_objects = NoRef THEN <<>>
    ELSE heap[perception_data.detected_objects]

\* C28: a cycle of the refresh loop that is discarded for an incomplete frame
\* leaves the shared perception snapshot as it is: the list published before
\* stays visible.
C28_DiscardedCycleKeepsSnapshot ==
    [][(fpc = "publish" /\ ~Complete(packet) /\ Visible # <<>>)
          => Visible' = Visible]_vars

\* C29: no axis filter is shared across objects: the filters of a driver
\* take samples of one object only, and the coordinates computed for the
\* first sample of an object are those fresh filters give, whatever other
\* detections were refined before.
C29_FiltersOfOneObject ==
    [][/\ Cardinality(fed') <= 1
       /\ (/\ fpc = "refine" /\ fpc' = "convert"
           /\ driver = "PybulletVision"
           /\ Head(raw_detections).name \notin fed)
             => world_coords'[1].coords
                  = Locate(Head(raw_detections), packet[1].depth[1], driver,
                           latest_state, FiltersInit).coords]_vars

\* C30: every write of the active-session fields is performed while the
\* controller's exclusive lock is held: a step that changes is_running or
\* current_state starts in a state where the caller holds the lock.
C30_SessionFieldsWrittenUnderLock ==
    [][(is_running' # is_running \/ current_state' # current_state)
          => lock # 0]_vars

\* the positions of a call at which the caller commands the manipulator or
\* the gripper, sleeps, or waits on the cancel flag (lines 96-165, 203-313)
CommandsOrWaits(t) ==
    pc[t] \in {"loop", "dispatch", "detect_wait", "reach_check", "reach_tick",
               "grasp_wait"}

\* C31: no caller holds the session lock while it executes an actuator
\* command, a sleep or a wait on the cancel flag.
C31_NoLockAcrossCommandOrWait ==
    \A t \in Callers : CommandsOrWaits(t) => lock # t

\* a caller waits for the gripper to settle while the other caller is inside
\* the with block of its admission
C31_Witness ==
    \E t \in Callers :
        /\ pc[t] = "grasp_wait"
        /\ loc[t].waitState = "waiting"
        /\ "gripper" \in issued[t]
        /\ lock \in Callers \ {t}

\* a step of the refresh loop that ends a cycle in the except clause: the
\* loop is back at its head without having been through the assignments
CycleFailed ==
    /\ fpc' = "idle"
    /\ fpc # "frame"
    /\ fpc # "idle" \/ cycle' = cycle + 1

\* C32: when the frame source, the detector or the projector raises during a
\* cycle of the refresh loop, the exception stays inside the loop: the cycle
\* publishes nothing, the snapshot and the frame published before are kept,
\* and the loop is at its head again, ready for the next cycle.
C32_RaisingCycleKeepsSnapshot ==
    [][CycleFailed => /\ perception_data' = perception_data
                      /\ Visible' = Visible
                      /\ snap' = snap
                      /\ last_frame_base64' = last_frame_base64
                      /\ fpc' = "idle" /\ packet' = <<>>]_vars

\* the first cycle raised and published nothing, the second cycle has
\* published its detections
C32_Witness ==
    /\ fpc = "idle"
    /\ cycle = 2
    /\ Len(snap) = 1
    /\ snap[1] # <<>>
    /\ snap[1][1].cyc = 2
    /\ Visible = snap[1]

\* C33: once stop() has set the cancel flag during an active session, no
\* iteration that starts afterwards commands an actuator: the reaching loop
\* does not go into another tick, and the state machine loop does not go
\* into the gripper-close step.
C33_NoCommandFromLaterIteration ==
    [][\A t \in Callers :
          hist[t].stopSeen =>
             /\ ~(pc[t] = "reach_check" /\ pc'[t] = "reach_tick")
             /\ ~(pc[t] = "loop" /\ pc'[t] = "dispatch"
                  /\ current_state = "GRASP")]_vars

\* C34: with switch_source running during a fusion cycle, every emitted
\* FusedObject is still computed with one source: the driver that supplied
\* the frame is the driver that projected the pixel and the driver the offset
\* decision was taken for, and an offset that is added is the one of that
\* driver's source.
C34_OneConsistentSource ==
    (last # <<>> /\ last[1].emit # <<>>) =>
       LET l == last[1]
       IN  /\ l.source = l.driver
           /\ l.converter = l.driver
           /\ l.converter = "RealSenseVision" => l.offset = REAL_OFFSET

\* the loop threads that are alive, each writing the snapshot in its cycles
AliveLoops == {n \in 1..MaxLoops : mgr.loop[n] \in {"head", "body"}}

\* C35: whatever start() and stop() calls are made on a PerceptionManager,
\* and however they interleave, at most one refresh loop thread is alive.
C35_OneRefreshLoop == Cardinality(AliveLoops) <= 1

\* C36: the controller never stays busy: with the caller's thread running
\* and time passing, is_running, once set by an admitted session, becomes
\* false again whatever way the session ends, and a start call made on the
\* idle controller an earlier session has left is admitted.
C36_NeverPermanentlyBusy ==
    /\ is_running ~> ~is_running
    /\ \A t \in Callers : pc[t] = "check" ~> hist[t].admitted

\* a later session has ended on an exception and the controller is idle
C36_Witness ==
    \E t \in Callers :
       /\ pc[t] = "return"
       /\ sessions = MaxCalls
       /\ hist[t].admitted
       /\ hist[t].fault = "move_robot"
       /\ ~is_running

\* C37: a tick of the reaching loop whose target look-up misses issues no
\* move_robot command: the tick adds no motion command to the call's effects,
\* counts none and leaves the end-effector where it is.
C37_NoCommandWithoutTarget ==
    [][\A t \in Callers :
          (pc[t] = "reach_tick" /\ pc'[t] # "reach_tick" /\ ReachTarget = <<>>)
             => /\ issued'[t] = issued[t]
                /\ hist'[t].moves <= hist[t].moves
                /\ ee' = ee]_vars

\* a reach that has commanded the manipulator and then missed the target in
\* its latest tick
C37_Witness ==
    \E t \in Callers :
       /\ pc[t] = "reach_check"
       /\ hist[t].missAge # NoneTime
       /\ hist[t].moves >= 1
       /\ "move" \in issued[t]
       /\ ReachTarget = <<>>

\* the tick of caller t that makes _visual_servo_loop return True
ReachSucceeds(t) ==
    /\ pc[t] = "reach_tick"
    /\ current_state = "VISUAL_SERVO"
    /\ current_state' = "GRASP"

\* C38: whenever the reaching loop returns success, the end-effector is
\* within 1.0 cm in the XY plane and within 0.5 cm vertically of the target
\* position read in that same tick, also when the target moved during DESCEND.
C38_SuccessMeansAligned ==
    [][\A t \in Callers :
          ReachSucceeds(t) =>
             LET goal == DescendGoal(ReachTarget[1].position, GRASP_DEPTH)
             IN  XYAligned(ee, goal) /\ ZReached(ee, goal)]_vars

\* C39: within one reach the phase is monotonic: the reach starts in
\* APPROACH; a tick that has read the target in APPROACH changes to DESCEND
\* exactly when the XY error to the approach goal is below 1.0 cm, whatever
\* the vertical error; no other tick changes the phase, DESCEND never goes
\* back to APPROACH, and success is returned by a tick in DESCEND only.
C39_PhaseMonotonic ==
    [][\A t \in Callers :
          /\ (pc[t] \notin ReachPcs /\ pc'[t] \in ReachPcs)
                => loc'[t].phase = "APPROACH"
          /\ (pc[t] \in ReachPcs /\ pc'[t] \in ReachPcs) =>
                IF pc[t] = "reach_tick" /\ pc'[t] = "reach_check"
                   /\ ReachTarget # <<>> /\ loc[t].phase = "APPROACH"
                THEN loc'[t].phase = "DESCEND"
                        <=> XYAligned(ee, ApproachGoal(ReachTarget[1].position))
                ELSE loc'[t].phase = loc[t].phase
          /\ ReachSucceeds(t) => loc[t].phase = "DESCEND"]_vars

\* a reach that approached a target 4 cm away and changed to DESCEND above it
C39_Witness ==
    \E t \in Callers :
       /\ pc[t] = "reach_check"
       /\ loc[t].phase = "DESCEND"
       /\ hist[t].moves = 2
       /\ ReachTarget # <<>>
       /\ ReachTarget[1].position.x = 40
       /\ ee.x > 30
       /\ ~ZReached(ee, DescendGoal(ReachTarget[1].position, GRASP_DEPTH))

\* a thread that waits for the broadcaster's lock
WaitsForLock(t) == bc.stack[t] # <<>> /\ Top(t).pc = "lock"

\* a thread that is inside a subscriber's callback, at any depth
InCallback(t) ==
    \E i \in 1..Len(bc.stack[t]) : bc.stack[t][i].fn = "callback"

\* C40: the broadcaster never calls a subscriber while it holds its lock, and
\* no thread asks for the lock while holding it (publish('agent_thought')
\* has released the lock of its log_chat step before it takes it again), so
\* the holder of the lock can always release it and a subscriber that calls
\* the broadcaster from its callback cannot deadlock it; and a notification
\* loop returns only after every subscriber was called, also when one raised.
C40_NoCallbackUnderLock ==
    /\ [](\A t \in Publishers :
             /\ WaitsForLock(t) => bc.lock # t
             /\ bc.lock = t => (bc.stack[t] # <<>> /\ Top(t).pc = "held"))
    /\ [][\A t \in Publishers : \A i \in 1..Len(bc.stack[t]) :
             (bc.stack[t][i].pc = "notify" /\ Len(bc.stack'[t]) < i)
                => bc.stack[t][i].called = Subscribers]_vars

\* a thread is in a call made from inside a callback, whose own loop has
\* called every subscriber although one raised, while the other thread
\* holds the lock
C40_Witness ==
    \E t \in Publishers :
       /\ Len(bc.stack[t]) >= 3
       /\ Top(t).pc = "notify"
       /\ Top(t).raised
       /\ Top(t).called = Subscribers
       /\ Top(t).idx \notin Subscribers
       /\ bc.stack[t][1].key = "agent_thought"
       /\ bc.lock \in Publishers \ {t}

====
